---- MODULE Spec2Model ----
(***************************************************************************)
(* A model of the coordinate-fusion engine of context-magnifier:           *)
(*   - CoordinateManager of coordinate_manager.py (focus resolution,       *)
(*     importance-grid recompute, continuous-update worker, toggles);      *)
(*   - CoordinateManager of main.py (the application entry point);         *)
(*   - the importance query find_important_area_near as a pure function;   *)
(*   - EyeTracker of facial-recognition/main.py (calibration, gaze         *)
(*     mapping, tracking thread) and run_calibration's record;             *)
(*   - ScreenAnalyzer of ocr/main.py (capture, grid, scoring);             *)
(*   - ScreenMagnifier of app/zoom_window.py (the position of the window). *)
(*                                                                         *)
(* Numbers.  Importance values are floats in the program.  Here they are   *)
(* exact rationals counted in units of epsilon = 1e-6                      *)
(* (coordinate_manager.py:258), so 1.0 is One = 1000000 units.  Pixel      *)
(* coordinates are integers; a weighted centroid is kept as an exact       *)
(* fraction (see Centroid).  Thresholds are counted in tenths.             *)
(*                                                                         *)
(* Specifications.  The actions are shared; each specification composes    *)
(* the part of the program its properties are about:                       *)
(*   SpecQuery       find_important_area_near on given matrices;           *)
(*   SpecFusion      get_coordinates of both managers with the toggles,    *)
(*                   the gaze and mouse threads and foreground grid        *)
(*                   computations;                                         *)
(*   SpecContinuous  the grid of coordinate_manager.py with its            *)
(*                   continuous-update threads;                            *)
(*   SpecInterval    the same threads with the update interval set;        *)
(*   SpecCalibration an EyeTracker calibrated and queried;                 *)
(*   SpecTracking    eye tracking of coordinate_manager.py, toggled and    *)
(*                   started from calibration files;                       *)
(*   SpecAnalyzer    a ScreenAnalyzer used alone;                          *)
(*   SpecElements    detect_ui_elements on given contours;                 *)
(*   SpecMagnifier   a ScreenMagnifier whose timer fires;                  *)
(*   SpecWorkers     the background threads under weak fairness, an        *)
(*                   iteration of either loop raising;                     *)
(*   SpecCoordinates get_coordinates for cursors on and off the screen,    *)
(*                   on grids of any screen;                               *)
(*   SpecCleanup     cleanup() of coordinate_manager.py.                   *)
(*                                                                         *)
(* Scores.  Multipliers of the analyzer are counted in tenths, the size    *)
(* factor of a word in thousandths (truncated), importance in units of     *)
(* 1e-6.  Intervals are counted in tenths of a second.                     *)
(***************************************************************************)
EXTENDS Integers, Sequences, FiniteSets, TLC

\* ------------------------------------------------------------------------
\* Program constants
\* ------------------------------------------------------------------------

\* epsilon = 1e-6 is one unit, so 1.0 (the normalisation test) is 1000000.
One == 1000000

\* weights = filtered_search_area + epsilon
Epsilon == 1

\* find_important_area_near(..., radius=200, importance_threshold=0.7)
DefaultRadius == 200

\* importance_threshold = 0.7, in tenths
DefaultThreshold == 7

\* thresholds are counted in tenths
ThresholdDen == 10

\* start_continuous_updates(interval=5.0) and the interval set by __init__,
\* in tenths of a second
DefaultInterval == 50

\* setup_importance_grid(self, grid_x=9, grid_y=16)
GridX == 9

GridY == 16

\* main.py: ScreenAnalyzer(grid_x=16, grid_y=9)
MainGridX == 16

MainGridY == 9

\* generate_importance_grid fallback: width, height = 1920, 1080
ScreenW == 1920

ScreenH == 1080

\* ------------------------------------------------------------------------
\* Bounds of the model
\* ------------------------------------------------------------------------

\* at most this many cells of an input matrix differ from its background
MaxHot == 2

\* ------------------------------------------------------------------------
\* Arithmetic helpers
\* ------------------------------------------------------------------------

Min(a, b) == IF a <= b THEN a ELSE b

Max(a, b) == IF a >= b THEN a ELSE b

RECURSIVE Gcd(_, _)
Gcd(a, b) == IF b = 0 THEN a ELSE Gcd(b, a % b)

\* int(a / b) for b > 0: Python's int() truncates toward zero
TruncDiv(a, b) == IF a >= 0 THEN a \div b ELSE -((-a) \div b)

\* sum of f[i] for i in lo..hi
RECURSIVE SumRange(_, _, _)
SumRange(lo, hi, f) == IF lo > hi THEN 0 ELSE f[lo] + SumRange(lo + 1, hi, f)

\* ------------------------------------------------------------------------
\* Values
\* ------------------------------------------------------------------------

\* a coordinate that is a plain number (an int from the cursor, a float
\* holding an integral value from the gaze mapping)
Px(n) == [kind |-> "px", v |-> n]

\* a coordinate computed as (start + s/w + 0.5) * cell, s/w in lowest terms
Centroid(cell, start, s, w) ==
    LET g == Gcd(s, w)
    IN  [kind |-> "centroid", cell |-> cell, start |-> start,
         s |-> s \div g, w |-> w \div g]

\* the importance matrix is None
NoMatrix == [none |-> TRUE]

\* cell_dimensions is None
NoDims == [none |-> TRUE]

\* the outcome of a call that raised TypeError
TypeError == [raised |-> "TypeError"]

\* the outcome of a call that raised ZeroDivisionError
ZeroDivisionError == [raised |-> "ZeroDivisionError"]

\* the outcomes that are an exception leaving the call
Exceptions == {TypeError, ZeroDivisionError}

\* a (rows x cols) float array: `base' everywhere except at the cells of
\* `hot', a set of <<row, col, value>>
Matrix(rows, cols, base, hot) ==
    [rows |-> rows, cols |-> cols, base |-> base, hot |-> hot]

MatAt(m, r, c) ==
    IF \E h \in m.hot : h[1] = r /\ h[2] = c
    THEN (CHOOSE h \in m.hot : h[1] = r /\ h[2] = c)[3]
    ELSE m.base

\* a[lo:hi] of numpy on an axis of length n, for lo >= 0: a negative hi
\* counts from the end of the axis
SliceRange(lo, hi, n) ==
    LET stop == IF hi < 0 THEN Max(hi + n, 0) ELSE Min(hi, n)
    IN  {i \in 0 .. (n - 1) : lo <= i /\ i < stop}

\* ------------------------------------------------------------------------
\* find_important_area_near (coordinate_manager.py:212-279; main.py:192-259
\* holds the same code)
\* ------------------------------------------------------------------------

\* cell_x = int(x / cell_width)
CellIndex(x, cell) == TruncDiv(x, cell)

\* radius_cells_x = min(int(radius / cell_width), grid_x // 2)
RadiusCells(radius, cell, n) == Min(TruncDiv(radius, cell), n \div 2)

\* start_x = max(0, cell_x - radius_cells_x)
SearchStart(x, cell, radius, n) ==
    Max(0, CellIndex(x, cell) - RadiusCells(radius, cell, n))

\* end_x = min(grid_x, cell_x + radius_cells_x + 1)
SearchEnd(x, cell, radius, n) ==
    Min(n, CellIndex(x, cell) + RadiusCells(radius, cell, n) + 1)

\* the column indices of search_area = importance_matrix[.., start_x:end_x]
SearchCols(m, dims, x, radius) ==
    SliceRange(SearchStart(x, dims[1], radius, m.cols),
               SearchEnd(x, dims[1], radius, m.cols), m.cols)

\* the row indices of search_area = importance_matrix[start_y:end_y, ..]
SearchRows(m, dims, y, radius) ==
    SliceRange(SearchStart(y, dims[2], radius, m.rows),
               SearchEnd(y, dims[2], radius, m.rows), m.rows)

\* np.max(search_area), for a non-empty search area
AreaMax(m, rows, cols) ==
    LET vals == {MatAt(m, r, c) : r \in rows, c \in cols}
    IN  CHOOSE v \in vals : \A u \in vals : u <= v

\* normalized_search_area >= importance_threshold for one cell of value v,
\* where the area is divided by its maximum mx only if mx > 1.0
PassesNeverNormalized(v, mx, t) == v * ThresholdDen >= t * One

Passes(v, mx, t) ==
    IF mx > One
    THEN v * ThresholdDen >= t * mx
    ELSE v * ThresholdDen >= t * One

\* importance_mask, as the set of <<row, col>> where it is True
importance_mask(m, rows, cols, t) ==
    LET mx == AreaMax(m, rows, cols)
    IN  {rc \in rows \X cols : Passes(MatAt(m, rc[1], rc[2]), mx, t)}

\* weights = filtered_search_area + epsilon, before the division by their sum
Weight(m, mask, r, c) ==
    (IF <<r, c>> \in mask THEN MatAt(m, r, c) ELSE 0) + Epsilon

\* the weighted centroid of lines 253-279, as the pair of screen coordinates
weighted_screen(m, dims, rows, cols, mask) ==
    LET r0 == CHOOSE r \in rows : \A q \in rows : r <= q
        r1 == CHOOSE r \in rows : \A q \in rows : r >= q
        c0 == CHOOSE c \in cols : \A q \in cols : c <= q
        c1 == CHOOSE c \in cols : \A q \in cols : c >= q
        rowW == [r \in r0 .. r1 |->
                    SumRange(c0, c1, [c \in c0 .. c1 |-> Weight(m, mask, r, c)])]
        colW == [c \in c0 .. c1 |->
                    SumRange(r0, r1, [r \in r0 .. r1 |-> Weight(m, mask, r, c)])]
        total == SumRange(r0, r1, rowW)
        sx == SumRange(c0, c1, [c \in c0 .. c1 |-> (c - c0) * colW[c]])
        sy == SumRange(r0, r1, [r \in r0 .. r1 |-> (r - r0) * rowW[r]])
    IN  <<Centroid(dims[1], c0, sx, total), Centroid(dims[2], r0, sy, total)>>

\* the test of lines 216 and 289 without its `is None' part
use_importance_flag_only(enabled, matrix) == enabled

\* line 289: self.importance_grid_enabled and self.importance_matrix is not
\* None; line 216 returns (x, y) on its negation
use_importance(enabled, matrix) == enabled /\ matrix # NoMatrix

\* the function without its `if not np.any(importance_mask)' return
find_important_area_near_no_any_check(enabled, m, dims, x, y, radius, t) ==
    IF ~use_importance(enabled, m)
    THEN <<x, y>>
    ELSE IF dims = NoDims
    THEN TypeError
    ELSE IF dims[1] = 0 \/ dims[2] = 0
    THEN ZeroDivisionError
    ELSE LET rows == SearchRows(m, dims, y.v, radius)
             cols == SearchCols(m, dims, x.v, radius)
         IN  IF rows = {} \/ cols = {}
             THEN <<x, y>>
             ELSE weighted_screen(m, dims, rows, cols,
                                  importance_mask(m, rows, cols, t))

\* Line 220 unpacks self.cell_dimensions: TypeError if it is None.  Lines
\* 221-222 and 225-226 divide by the cell width and height:
\* ZeroDivisionError if one of them is 0.
find_important_area_near(enabled, m, dims, x, y, radius, t) ==
    IF ~use_importance(enabled, m)
    THEN <<x, y>>
    ELSE IF dims = NoDims
    THEN TypeError
    ELSE IF dims[1] = 0 \/ dims[2] = 0
    THEN ZeroDivisionError
    ELSE LET rows == SearchRows(m, dims, y.v, radius)
             cols == SearchCols(m, dims, x.v, radius)
             mask == importance_mask(m, rows, cols, t)
         IN  IF rows = {} \/ cols = {}
             THEN <<x, y>>
             ELSE IF mask = {}
                  THEN <<x, y>>
                  ELSE weighted_screen(m, dims, rows, cols, mask)

\* ------------------------------------------------------------------------
\* State
\* ------------------------------------------------------------------------

VARIABLES
    impl,                           \* which CoordinateManager class was built
    eye_tracking_enabled,           \* self.eye_tracking_enabled
    importance_grid_enabled,        \* self.importance_grid_enabled
    shared_eye_x,                   \* self.shared_eye_x.value
    shared_eye_y,                   \* self.shared_eye_y.value
    mouse_x,                        \* self.mouse_x (main.py)
    mouse_y,                        \* self.mouse_y (main.py)
    screen_analyzer,                \* self.screen_analyzer
    grid_cells,                     \* self.grid_cells
    cell_dimensions,                \* self.cell_dimensions
    importance_matrix,              \* self.importance_matrix
    continuous_update,              \* self.continuous_update
    continuous_update_interval,     \* self.continuous_update_interval (1/10 s)
    continuous_update_thread,       \* self.continuous_update_thread
    continuous_update_stop_event,   \* self.continuous_update_stop_event
    eye_tracker,                    \* self.eye_tracker
    tracker,                        \* the EyeTracker instance in use
    calibration_file,               \* self.calibration_file
    pc,                             \* position of the foreground thread (0)
                                    \* and of every continuous-update thread
    upd,                            \* per thread: the triple returned by
                                    \* generate_importance_grid, being stored
    frame,                          \* locals of the foreground call
    tracker_pc,                     \* position of the gaze tracking thread
    mouse_pc,                       \* position of main.py's mouse thread
    next_gen,                       \* number of the next recompute
    ret,                            \* the last completed foreground call
    q,                              \* the importance query checked alone
    magnifier                       \* the ScreenMagnifier window

vars == <<impl, eye_tracking_enabled, importance_grid_enabled, shared_eye_x,
          shared_eye_y, mouse_x, mouse_y, screen_analyzer, grid_cells,
          cell_dimensions, importance_matrix, continuous_update,
          continuous_update_interval, continuous_update_thread,
          continuous_update_stop_event, eye_tracker, tracker,
          calibration_file, pc, upd, frame, tracker_pc, mouse_pc, next_gen,
          ret, q, magnifier>>

\* ------------------------------------------------------------------------
\* Bounds and input sets of the manager model
\* ------------------------------------------------------------------------

\* continuous-update threads that can be alive at the same time
MaxWorkers == 2

\* recomputes are numbered modulo NumGens
NumGens == 2

Workers == 1 .. MaxWorkers

Threads == 0 .. MaxWorkers

\* a bounding rectangle cv2 finds in a cell
Contour(w, h, text) == [w |-> w, h |-> h, text |-> text]

\* a word OCR reports: confidence, height in pixels, number of characters
\* left by strip(), and what lines 251-257 test of its text
Word(conf, h, len, alert, confirm, upper) ==
    [conf |-> conf, h |-> h, len |-> len, alert |-> alert,
     confirm |-> confirm, upper |-> upper]

\* what a place of the screen shows
Content(contours, words) ==
    [contours |-> contours, words |-> words, raises |-> FALSE]

\* a place whose analysis raises
Unreadable == [contours |-> <<>>, words |-> <<>>, raises |-> TRUE]

\* What a capture can show: the size of the screen and what is at some of its
\* places, as <<x, y, content>>: a lowercase word of eight letters, 20 pixels
\* high (importance 1.2), and a button with text (3.0).
Images ==
    <<[w |-> 1280, h |-> 720,
       spots |-> {<<300, 330,
                    Content(<<>>, <<Word(90, 20, 8, FALSE, FALSE, FALSE)>>)>>,
                  <<500, 500, Content(<<Contour(120, 40, TRUE)>>, <<>>)>>}]>>

ImageIds == 1 .. Len(Images)

\* the same content, its analysis raising
Failing(content) == [content EXCEPT !.raises = TRUE]

\* Further screens for the analyzer checked alone: one with every kind of
\* content, two of its places in the same cell of every grid, places whose
\* analysis raises beside one that scores, and one in the last pixel column;
\* and a screen of 2 x 2 pixels.
Screens ==
    Images \o
    <<[w |-> 1280, h |-> 720,
       spots |-> {<<100, 100,
                    Content(<<Contour(200, 30, FALSE), Contour(8, 40, TRUE),
                              Contour(90, 90, TRUE)>>,
                            <<Word(95, 10, 5, TRUE, FALSE, TRUE),
                              Word(10, 10, 5, TRUE, FALSE, TRUE)>>)>>,
                  <<110, 110,
                    Content(<<Contour(60, 20, FALSE)>>,
                            <<Word(80, 4, 2, FALSE, TRUE, FALSE),
                              Word(80, 40, 7, FALSE, FALSE, TRUE),
                              Word(80, 12, 0, FALSE, FALSE, FALSE)>>)>>,
                  <<700, 400, Unreadable>>,
                  <<710, 410,
                    Failing(Content(<<Contour(120, 40, TRUE)>>,
                                    <<Word(90, 20, 8, FALSE, FALSE, FALSE)>>))>>,
                  <<900, 400,
                    Content(<<Contour(300, 40, FALSE)>>, <<>>)>>,
                  <<1279, 719,
                    Content(<<Contour(100, 50, TRUE)>>, <<>>)>>}],
      [w |-> 2, h |-> 2, spots |-> {}]>>

\* cursor positions handed to get_coordinates
MousePoints == {<<500, 500>>, <<100, 100>>}

\* screen points the gaze mapping publishes
GazePoints == {<<510, 470>>, <<960, 300>>}

NoAnalyzer == [none |-> TRUE]

NoCells == [none |-> TRUE]

NoTracker == [none |-> TRUE]

\* self.calibration_file is None
NoFile == [none |-> TRUE]

NoTriple == [none |-> TRUE]

NoCall == [op |-> "none"]

\* no magnifier window was created
NoMagnifier == [none |-> TRUE]

NoThread == 0

\* the array or tuple held by a field that recompute `gen' stored
Val(field) == IF "val" \in DOMAIN field THEN field.val ELSE field

\* ------------------------------------------------------------------------
\* ScreenAnalyzer (ocr/main.py), as far as the manager depends on it
\* ------------------------------------------------------------------------

\* The importance arguments of ScreenAnalyzer.__init__ with their defaults
\* (lines 16-32): sizes in pixels, confidence in percent, factors in tenths.
DefaultWeights ==
    [base_size |-> 20, max_size_factor |-> 40, min_size_factor |-> 10,
     confidence_threshold |-> 20, button_importance |-> 30,
     input_field_importance |-> 20, checkbox_importance |-> 10,
     confirmation_text_importance |-> 30, error_importance |-> 25,
     title_importance |-> 15, length_importance |-> 15,
     density_importance |-> 2]

\* ScreenAnalyzer(grid_x=.., grid_y=.., <importance arguments>): no
\* screenshot and no grid yet
ScreenAnalyzerWith(gx, gy, weights) ==
    [grid_x |-> gx, grid_y |-> gy, screenshot |-> 0, grid_cells |-> NoCells,
     cell_dimensions |-> NoDims, weights |-> weights]

\* ScreenAnalyzer(grid_x=.., grid_y=..)
ScreenAnalyzer(gx, gy) == ScreenAnalyzerWith(gx, gy, DefaultWeights)

\* capture_screen: the grab `c' (0: the grab failed) replaces the screenshot
capture_screen(an, c) == IF c = 0 THEN an ELSE [an EXCEPT !.screenshot = c]

\* create_grid: cell_width = width // grid_x, cell_height = height // grid_y
create_grid_dimensions(img, gx, gy) == <<img.w \div gx, img.h \div gy>>

\* Line 331: 8000 < area < 1000
checkbox_band(area) == 8000 < area /\ area < 1000

\* Lines 305-333: the type given to a bounding rectangle of w x h pixels
\* (text: pytesseract finds text inside it).  aspect_ratio = w / h is
\* compared by cross-multiplication.  A rectangle of button shape without
\* text gets no type: the input-field test is an elif of the shape test.
ElementType(c) ==
    LET area == c.w * c.h
    IN  IF 3 * c.h < 2 * c.w /\ c.w < 5 * c.h /\ area > 500
        THEN IF c.text THEN "button" ELSE "none"
        ELSE IF 3 * c.h < c.w /\ c.w < 10 * c.h /\ area > 1000
        THEN "input_field"
        ELSE IF 4 * c.h < 5 * c.w /\ 5 * c.w < 6 * c.h /\ checkbox_band(area)
        THEN "checkbox"
        ELSE "none"

\* the importance of an element of that type, in tenths
ElementImportance(an, type) ==
    CASE type = "button" -> an.weights.button_importance
      [] type = "input_field" -> an.weights.input_field_importance
      [] type = "checkbox" -> an.weights.checkbox_importance
      [] OTHER -> 0

\* detect_ui_elements: the summed importance of the contours of a cell;
\* contours narrower or lower than 10 pixels are left out (line 302)
detect_ui_elements(an, contours) ==
    LET RECURSIVE total(_)
        total(i) ==
            IF i = 0 THEN 0
            ELSE LET c == contours[i]
                 IN  total(i - 1)
                       + (IF c.w < 10 \/ c.h < 10 THEN 0
                          ELSE ElementImportance(an, ElementType(c))
                                 * (One \div 10))
    IN  total(Len(contours))

\* Lines 232-247: the size factor of a word h pixels high, in thousandths
size_factor(an, h) ==
    LET base_size == an.weights.base_size
    IN  IF h < base_size
        THEN Min((base_size * 1000) \div Max(h, 5),
                 an.weights.max_size_factor * 100)
        ELSE Max((base_size * 1000) \div h, an.weights.min_size_factor * 100)

\* Lines 249-258: the content factor of a word, in tenths.  alert: the
\* lowercased word is one of error, warning, alert, caution; confirm: it
\* contains ok, cancel, submit or save; upper: its first letter is a capital
content_factor(an, word) ==
    IF word.alert THEN an.weights.error_importance
    ELSE IF word.confirm THEN an.weights.confirmation_text_importance
    ELSE IF word.upper /\ word.len > 3 THEN an.weights.title_importance
    ELSE 10

\* Lines 260-263, in tenths
length_factor(an, word) ==
    IF word.len <= 5 THEN an.weights.length_importance ELSE 10

\* analyze_text_importance: the summed score of the words OCR reports for a
\* cell.  Words below the confidence threshold and blank words are left out
\* (lines 224-227); the words tesseract reports are at least a pixel high.
analyze_text_importance(an, words) ==
    LET RECURSIVE total(_)
        total(i) ==
            IF i = 0 THEN 0
            ELSE LET word == words[i]
                 IN  total(i - 1)
                       + (IF word.conf > an.weights.confidence_threshold
                             /\ word.len > 0
                          THEN size_factor(an, word.h)
                                 * content_factor(an, word)
                                 * length_factor(an, word) * 10
                               + an.weights.density_importance * (One \div 10)
                          ELSE 0)
    IN  total(Len(words))

\* the importance of a cell, a raising analysis counted as if it had not
total_importance_despite_raise(an, content) ==
    detect_ui_elements(an, content.contours)
      + analyze_text_importance(an, content.words)

\* Lines 393-402: the importance of a cell showing `content'; when either
\* analysis raises the cell scores 0
total_importance(an, content) ==
    IF content.raises THEN 0
    ELSE detect_ui_elements(an, content.contours)
           + analyze_text_importance(an, content.words)

\* the (grid_y x grid_x) array of zeros of lines 378-380
zeros_matrix(an) == Matrix(an.grid_y, an.grid_x, 0, {})

\* the array of lines 441-443, swapped
ones_matrix_transposed(an) == Matrix(an.grid_x, an.grid_y, One, {})

\* the default importance matrix of lines 441-443
ones_matrix(an) == Matrix(an.grid_y, an.grid_x, One, {})

\* the importance matrix of the normal path: importance_matrix[y, x] is the
\* importance of the cell create_grid cut at column x, row y.  Pixels right
\* of grid_x * cell_width or below grid_y * cell_height are in no cell, and
\* cells without pixels are passed over (lines 388-390).
score_matrix(an, img) ==
    LET d == create_grid_dimensions(img, an.grid_x, an.grid_y)
        cellOf(sp) == <<sp[2] \div d[2], sp[1] \div d[1]>>
        inGrid == IF d[1] = 0 \/ d[2] = 0 THEN {}
                  ELSE {sp \in img.spots :
                           cellOf(sp)[1] < an.grid_y /\ cellOf(sp)[2] < an.grid_x}
        cells == {cellOf(sp) : sp \in inGrid}
        merged(S) ==
            [raises |-> \E sp \in S : sp[3].raises,
             contours |-> LET RECURSIVE cat(_)
                              cat(T) == IF T = {} THEN <<>>
                                        ELSE LET sp == CHOOSE e \in T : TRUE
                                             IN  sp[3].contours \o cat(T \ {sp})
                          IN  cat(S),
             words |-> LET RECURSIVE cat(_)
                           cat(T) == IF T = {} THEN <<>>
                                     ELSE LET sp == CHOOSE e \in T : TRUE
                                          IN  sp[3].words \o cat(T \ {sp})
                       IN  cat(S)]
    IN  [zeros_matrix(an) EXCEPT
           !.hot = {<<rc[1], rc[2],
                      total_importance(
                          an, merged({sp \in inGrid : cellOf(sp) = rc}))>> :
                       rc \in cells}]

\* the cell of the grid a place lies in, as <<row, column>>, for cells of
\* d[1] x d[2] pixels
PlaceCell(d, sp) == <<sp[2] \div d[2], sp[1] \div d[1]>>

\* Lines 404-407: the importance stored in the cell infos create_grid made,
\* as <<row, column, importance>>, the value written to the matrix at line
\* 410.  Cells without pixels are passed over before (lines 388-390) and
\* get none.
stored_importance(an, img) ==
    LET d == create_grid_dimensions(img, an.grid_x, an.grid_y)
        m == score_matrix(an, img)
    IN  IF d[1] = 0 \/ d[2] = 0 THEN {}
        ELSE {<<r, c, MatAt(m, r, c)>> :
                 r \in 0 .. (an.grid_y - 1), c \in 0 .. (an.grid_x - 1)}

\* generate_importance_grid: the triple it returns and the analyzer after it.
\* retry: the grab of the second capture attempt made when there is no
\* screenshot; grab: the PIL grab of the fallback (0: failed).  create_grid
\* divides by grid_x and grid_y; the fallback of lines 420-446 divides by
\* them only when no grid was ever cut, and what it raises then leaves the
\* method.
generate_importance_grid(an, retry, grab) ==
    LET an1 == IF an.screenshot = 0 THEN capture_screen(an, retry) ELSE an
        zero == an1.grid_x = 0 \/ an1.grid_y = 0
    IN  IF an1.screenshot # 0 /\ ~zero
        THEN LET img == Screens[an1.screenshot]
                 dims == create_grid_dimensions(img, an1.grid_x, an1.grid_y)
                 an2 == [an1 EXCEPT
                           !.grid_cells = [none |-> FALSE,
                                           n |-> an1.grid_x * an1.grid_y],
                           !.cell_dimensions = [none |-> FALSE, val |-> dims]]
             IN  [an |-> an2, cells |-> "cells", dims |-> dims,
                  matrix |-> score_matrix(an2, img)]
        ELSE IF an1.grid_cells = NoCells \/ an1.cell_dimensions = NoDims
        THEN IF zero
             THEN [an |-> an1, raised |-> "ZeroDivisionError"]
             ELSE LET size == IF grab = 0 THEN [w |-> ScreenW, h |-> ScreenH]
                              ELSE Screens[grab]
                      dims == create_grid_dimensions(size, an1.grid_x,
                                                     an1.grid_y)
                  IN  [an |-> [an1 EXCEPT !.cell_dimensions =
                                              [none |-> FALSE, val |-> dims]],
                       cells |-> "empty", dims |-> dims,
                       matrix |-> ones_matrix(an1)]
        ELSE [an |-> an1, cells |-> "empty",
              dims |-> an1.cell_dimensions.val,
              matrix |-> ones_matrix(an1)]

\* ------------------------------------------------------------------------
\* ScreenMagnifier (app/zoom_window.py): the position of the window
\* ------------------------------------------------------------------------

\* QApplication.primaryScreen().geometry()
PrimaryScreen == [w |-> 1280, h |-> 720]

\* the margin of the fixed position (lines 228-229)
FixedMargin == 20

\* ScreenMagnifier(scale_factor=2.5, window_width=.., window_height=..,
\* follow_mouse=.., fixed_position=..): the window not yet moved.
\* update_source_dimensions: source_width = int(window_width / 2.5)
ScreenMagnifier(window_width, window_height, follow_mouse, fixed_position) ==
    [none |-> FALSE,
     window_width |-> window_width, window_height |-> window_height,
     follow_mouse |-> follow_mouse, fixed_position |-> fixed_position,
     source_width |-> (window_width * 2) \div 5,
     source_height |-> (window_height * 2) \div 5,
     pos |-> <<0, 0>>, capture |-> <<0, 0>>]

\* lines 246-249 without the shift
shift_back_never(at, size, screen) == at

\* Lines 246-249 (and 252-255): the window is shifted back by its size when
\* it would pass the far edge
shift_back(at, size, screen) == IF at + size > screen THEN at - size ELSE at

\* Lines 246-255 for one axis
clamp_axis(at, size, screen) ==
    LET shifted == shift_back(at, size, screen)
    IN  IF shifted < 0 THEN 0 ELSE shifted

\* update_magnifier with the cursor at `mouse' and the coordinate source
\* returning `content': the window is moved (line 258) and the region around
\* the content captured (lines 264-275)
update_magnifier(m, mouse, content) ==
    LET window_x == IF m.fixed_position
                    THEN PrimaryScreen.w - m.window_width - FixedMargin
                    ELSE IF m.follow_mouse THEN mouse[1] ELSE content[1]
        window_y == IF m.fixed_position
                    THEN PrimaryScreen.h - m.window_height - FixedMargin
                    ELSE IF m.follow_mouse THEN mouse[2] ELSE content[2]
    IN  [m EXCEPT
           !.pos = <<clamp_axis(window_x, m.window_width, PrimaryScreen.w),
                     clamp_axis(window_y, m.window_height, PrimaryScreen.h)>>,
           !.capture = <<Max(0, content[1] - m.source_width \div 2),
                         Max(0, content[2] - m.source_height \div 2)>>]

\* toggle_follow_mouse, lines 159-162
toggle_follow_mouse(m, checked) == [m EXCEPT !.follow_mouse = checked]

\* toggle_fixed_position, lines 297-303
toggle_fixed_position(m, checked) ==
    [m EXCEPT !.fixed_position = checked,
              !.follow_mouse = IF checked THEN FALSE ELSE @]

\* ------------------------------------------------------------------------
\* Construction
\* ------------------------------------------------------------------------

\* the query checked alone is not in use
QIdle == [pc |-> "off"]

\* CoordinateManager.__init__ with its two flags as given by the caller
ManagerInit(eye, grid) ==
    /\ eye_tracking_enabled = eye
    /\ importance_grid_enabled = grid
    /\ shared_eye_x = 0
    /\ shared_eye_y = 0
    /\ mouse_x = 0
    /\ mouse_y = 0
    /\ grid_cells = NoCells
    /\ cell_dimensions = NoDims
    /\ importance_matrix = NoMatrix
    /\ continuous_update = FALSE
    /\ continuous_update_interval = DefaultInterval
    /\ continuous_update_thread = NoThread
    /\ continuous_update_stop_event = FALSE
    /\ eye_tracker = NoTracker
    /\ calibration_file = NoFile
    /\ pc = [t \in Threads |-> IF t = 0 THEN "idle" ELSE "unborn"]
    /\ upd = [t \in Threads |-> NoTriple]
    /\ frame = NoCall
    /\ tracker_pc = [at |-> "none", active |-> FALSE]
    /\ next_gen = 0
    /\ ret = NoCall

Init ==
    /\ impl \in {"coordinate_manager", "main"}
    /\ tracker = NoTracker
    /\ magnifier = NoMagnifier
    /\ \E eye \in BOOLEAN, grid \in BOOLEAN : ManagerInit(eye, grid)
    \* self.screen_analyzer is None after __init__; the owner of a
    \* coordinate_manager.py manager may have assigned it a ScreenAnalyzer
    /\ screen_analyzer \in
           IF impl = "main" THEN {NoAnalyzer}
           ELSE {NoAnalyzer, ScreenAnalyzer(GridX, GridY)}
    /\ mouse_pc = IF impl = "main" THEN [at |-> "sample"] ELSE [at |-> "none"]
    /\ q = QIdle

\* the foreground thread starts a call: the record of the last call is dropped
Begin(op) ==
    /\ pc[0] = "idle"
    /\ ret' = NoCall

\* the foreground call returns
Return(record) ==
    /\ pc' = [pc EXCEPT ![0] = "idle"]
    /\ frame' = NoCall
    /\ ret' = record

\* what no operation of a manager, tracker or analyzer changes
outside == <<impl, magnifier>>

managerFlags == <<eye_tracking_enabled, importance_grid_enabled>>

gazeSlot == <<shared_eye_x, shared_eye_y>>

mouseSlot == <<mouse_x, mouse_y>>

gridTriple == <<grid_cells, cell_dimensions, importance_matrix>>

eyeTracking == <<eye_tracker, tracker, calibration_file>>

continuousState == <<continuous_update, continuous_update_interval,
                     continuous_update_thread, continuous_update_stop_event>>

\* ------------------------------------------------------------------------
\* coordinate_manager.py: get_coordinates (lines 281-296)
\* ------------------------------------------------------------------------

\* line 293: if self.eye_tracking_enabled, with the test left out
use_eye_always(enabled) == TRUE

\* line 293: if self.eye_tracking_enabled, with the override left out
use_eye_never(enabled) == FALSE

\* line 293: if self.eye_tracking_enabled
use_eye(enabled) == enabled

\* Lines 282-290 and, inside find_important_area_near, lines 216-220: the
\* cursor is read, and if the grid is in use cell_dimensions is read.  The
\* flags are written by the foreground thread only and the matrix never
\* becomes None again, so cell_dimensions is the one racing read of the step.
get_coordinates_begin(mx, my) ==
    /\ impl = "coordinate_manager"
    /\ Begin("get_coordinates")
    /\ LET use == use_importance(importance_grid_enabled, importance_matrix)
       IN  /\ frame' = [op |-> "get_coordinates",
                        mouse |-> <<Px(mx), Px(my)>>,
                        xy |-> <<Px(mx), Px(my)>>,
                        grid |-> importance_grid_enabled,
                        had_matrix |-> importance_matrix # NoMatrix,
                        dims |-> IF use THEN cell_dimensions ELSE NoDims,
                        matrix_gen |-> -1,
                        eye_x |-> 0]
           /\ pc' = [pc EXCEPT ![0] = IF use THEN "gc_find" ELSE "gc_eye"]
    /\ UNCHANGED <<outside, managerFlags, gazeSlot, mouseSlot, screen_analyzer,
                   gridTriple, continuousState, eyeTracking, upd, tracker_pc,
                   mouse_pc, next_gen, q>>

\* the record of a completed get_coordinates whose frame is fr: what it
\* returned (or that it raised) and what it read on the way
GetCoordinatesRecord(fr, value, gaze) ==
    [op |-> "get_coordinates", value |-> value, raised |-> value \in Exceptions,
     mouse |-> fr.mouse, grid |-> fr.grid, had_matrix |-> fr.had_matrix,
     found |-> fr.xy,
     dims_gen |-> IF fr.dims = NoDims THEN -1 ELSE fr.dims.gen,
     matrix_gen |-> fr.matrix_gen,
     eye |-> eye_tracking_enabled, gaze |-> gaze]

\* Lines 225-279 of find_important_area_near: the matrix is read and the
\* query is answered with the cell_dimensions read before.  An exception
\* leaves get_coordinates.
get_coordinates_find ==
    /\ pc[0] = "gc_find"
    /\ LET fr == [frame EXCEPT
                    !.xy = find_important_area_near(
                               importance_grid_enabled, Val(importance_matrix),
                               Val(frame.dims), frame.mouse[1], frame.mouse[2],
                               DefaultRadius, DefaultThreshold),
                    !.matrix_gen = IF importance_matrix = NoMatrix THEN -1
                                   ELSE importance_matrix.gen]
       IN  IF fr.xy \in Exceptions
           THEN Return(GetCoordinatesRecord(
                           fr, fr.xy,
                           <<Px(shared_eye_x), Px(shared_eye_y)>>))
           ELSE /\ frame' = fr
                /\ pc' = [pc EXCEPT ![0] = "gc_eye"]
                /\ ret' = ret
    /\ UNCHANGED <<outside, managerFlags, gazeSlot, mouseSlot, screen_analyzer,
                   gridTriple, continuousState, eyeTracking, upd, tracker_pc,
                   mouse_pc, next_gen, q>>

\* Lines 293-294: without eye tracking the call returns (line 296); with it
\* shared_eye_x.value is read.
get_coordinates_eye ==
    /\ pc[0] = "gc_eye"
    /\ IF use_eye(eye_tracking_enabled)
       THEN /\ frame' = [frame EXCEPT !.eye_x = shared_eye_x]
            /\ pc' = [pc EXCEPT ![0] = "gc_eye_y"]
            /\ ret' = ret
       ELSE Return(GetCoordinatesRecord(
                       frame, frame.xy,
                       <<Px(shared_eye_x), Px(shared_eye_y)>>))
    /\ UNCHANGED <<outside, managerFlags, gazeSlot, mouseSlot, screen_analyzer,
                   gridTriple, continuousState, eyeTracking, upd, tracker_pc,
                   mouse_pc, next_gen, q>>

\* Line 294, second read, and line 296.
get_coordinates_eye_y ==
    /\ pc[0] = "gc_eye_y"
    /\ Return(GetCoordinatesRecord(
                  frame, <<Px(frame.eye_x), Px(shared_eye_y)>>,
                  <<Px(frame.eye_x), Px(shared_eye_y)>>))
    /\ UNCHANGED <<outside, managerFlags, gazeSlot, mouseSlot, screen_analyzer,
                   gridTriple, continuousState, eyeTracking, upd, tracker_pc,
                   mouse_pc, next_gen, q>>

\* ------------------------------------------------------------------------
\* EyeTracker (facial-recognition/main.py): the instance and its methods.
\* The camera can always be opened.  Pupil averages are kept multiplied by
\* calibration_samples, so that np.mean stays a whole number.
\* ------------------------------------------------------------------------

\* positions of a calibration: the first NumPositions of the 13 names
NumPositions == 3

\* EyeTracker(calibration_samples=...): samples taken per position
calibration_samples == 2

\* lines 87-101
PositionNames ==
    <<"center", "left", "right", "top", "bottom", "top_left", "top_right",
      "bottom_left", "bottom_right", "mid_left", "mid_right", "mid_top",
      "mid_bottom">>

calibration_positions == SubSeq(PositionNames, 1, NumPositions)

PositionSet == {calibration_positions[i] : i \in 1 .. NumPositions}

\* lines 56-77: the screen point of a position on a w x h screen
DefaultScreenPoint(name, w, h) ==
    LET margin == 50
        quarter_w == w \div 4
        quarter_h == h \div 4
    IN  CASE name = "center" -> <<w \div 2, h \div 2>>
          [] name = "left" -> <<margin, h \div 2>>
          [] name = "right" -> <<w - margin, h \div 2>>
          [] name = "top" -> <<w \div 2, margin>>
          [] name = "bottom" -> <<w \div 2, h - margin>>
          [] name = "top_left" -> <<margin, margin>>
          [] name = "top_right" -> <<w - margin, margin>>
          [] name = "bottom_left" -> <<margin, h - margin>>
          [] name = "bottom_right" -> <<w - margin, h - margin>>
          [] name = "mid_left" -> <<quarter_w, h \div 2>>
          [] name = "mid_right" -> <<w - quarter_w, h \div 2>>
          [] name = "mid_top" -> <<w \div 2, quarter_h>>
          [] name = "mid_bottom" -> <<w \div 2, h - quarter_h>>

\* get_screen_resolution() of the display the tracker runs on
TrackerScreen == [w |-> 1280, h |-> 720]

DefaultScreenPoints ==
    [name \in PositionSet |->
        DefaultScreenPoint(name, TrackerScreen.w, TrackerScreen.h)]

\* the calibration_screen_points a caller can pass: a mapping that has the
\* default point of some of the positions (an empty one is replaced by the
\* default mapping, line 55)
ScreenPointMaps ==
    {[name \in S |-> DefaultScreenPoints[name]] :
        S \in (SUBSET PositionSet) \ {{}}}

\* lines 38-52: the calibration data a new tracker starts with
DefaultSample == [left_pupil |-> <<0, 0>>, right_pupil |-> <<0, 0>>]

\* a pupil that was not detected (None)
NoPupil == <<>>

\* pupil_left_coords(), pupil_right_coords() of a frame with both pupils
FullReadings == {<<<<30, 20>>, <<50, 20>>>>, <<<<32, 22>>, <<52, 22>>>>}

\* what the pupil detector can return for a frame
EyePositions ==
    FullReadings \cup {<<<<30, 20>>, NoPupil>>, <<NoPupil, <<52, 22>>>>,
                       <<NoPupil, NoPupil>>}

\* the detections a position capture collects before its timeout
Detections ==
    UNION {[1 .. n -> FullReadings] : n \in 0 .. calibration_samples}

\* get_gaze_point, map_eye_position_to_screen return None
NoGaze == [none |-> TRUE]

\* self.eye_tracker refers to the instance held by `tracker'
TheTracker == [none |-> FALSE]

\* EyeTracker.__init__ (lines 11-105)
EyeTracker(screen_points) ==
    [webcam |-> "none",
     calibrated_points |-> [name \in PositionSet |-> DefaultSample],
     calibration_screen_points |-> screen_points,
     is_calibrated |-> FALSE,
     current_position |-> 0,
     root |-> "none",
     \* history: end_calibration has run on this instance
     aborted |-> FALSE]

\* lines 107-113
start_webcam(tr) == [tr EXCEPT !.webcam = "open"]

\* lines 115-119
stop_webcam(tr) == [tr EXCEPT !.webcam = "none"]

\* lines 446-457
finish_calibration(tr) ==
    stop_webcam([tr EXCEPT
        !.is_calibrated = (tr.current_position = Len(calibration_positions)),
        !.root = "destroyed"])

\* lines 175-189: positions without screen coordinates are passed over; past
\* the last position the calibration is finished; otherwise the target of
\* calibration_positions[current_position] is drawn
show_next_calibration_point(tr) ==
    LET RECURSIVE show(_)
        show(t) ==
            IF t.current_position >= Len(calibration_positions)
            THEN finish_calibration(t)
            ELSE IF calibration_positions[t.current_position + 1]
                        \notin DOMAIN t.calibration_screen_points
                 THEN show([t EXCEPT !.current_position = @ + 1])
                 ELSE t
    IN  show(tr)

\* lines 121-165: the window is created and the first target shown; the
\* main loop then runs until the window is destroyed
calibrate(tr) ==
    show_next_calibration_point([start_webcam(tr) EXCEPT !.root = "open"])

\* np.mean over the samples of one pupil, times calibration_samples
PupilSum(detections, eye) ==
    <<SumRange(1, Len(detections),
               [i \in 1 .. Len(detections) |-> detections[i][eye][1]]),
      SumRange(1, Len(detections),
               [i \in 1 .. Len(detections) |-> detections[i][eye][2]])>>

\* lines 325-437: `detections' are the frames with both pupils found before
\* the timeout of 10 s
capture_current_position(tr, detections) ==
    IF tr.current_position >= Len(calibration_positions) THEN tr
    ELSE LET position == calibration_positions[tr.current_position + 1]
         IN  IF Len(detections) = calibration_samples
             THEN show_next_calibration_point(
                      [tr EXCEPT
                          !.calibrated_points[position] =
                              [left_pupil |-> PupilSum(detections, 1),
                               right_pupil |-> PupilSum(detections, 2)],
                          !.current_position = @ + 1])
             ELSE show_next_calibration_point(tr)

\* lines 439-444
end_calibration(tr) ==
    stop_webcam([tr EXCEPT !.is_calibrated = FALSE, !.root = "destroyed",
                           !.aborted = TRUE])

\* squared distance of a live pupil to a stored average (lines 526-531), in
\* units of 1 / calibration_samples^2
DistanceSq(pupil, stored) ==
    (pupil[1] * calibration_samples - stored[1])
        * (pupil[1] * calibration_samples - stored[1])
    + (pupil[2] * calibration_samples - stored[2])
        * (pupil[2] * calibration_samples - stored[2])

\* lines 490-565.  The screen point returned is
\*   int(sum_i w_i * point_i / sum_i w_i),  w_i = 1 / (distance_sq_i + 1e-10),
\* over the positions i that have a screen point; it is kept as the table of
\* the distances (doubled, so that the mean of two eyes is whole) and the
\* points.
map_eye_position_to_screen(tr, eye_position) ==
    LET left_pupil == eye_position[1]
        right_pupil == eye_position[2]
        current_left == IF left_pupil # NoPupil THEN left_pupil ELSE <<0, 0>>
        current_right == IF right_pupil # NoPupil THEN right_pupil
                         ELSE <<0, 0>>
        twice_distance_sq(position) ==
            LET data == tr.calibrated_points[position]
                l == DistanceSq(current_left, data.left_pupil)
                r == DistanceSq(current_right, data.right_pupil)
            IN  IF left_pupil # NoPupil /\ right_pupil # NoPupil THEN l + r
                ELSE IF left_pupil # NoPupil THEN 2 * l
                ELSE 2 * r
    IN  IF left_pupil = NoPupil /\ right_pupil = NoPupil THEN NoGaze
        ELSE [kind |-> "screen",
              twice_distance_sq |->
                  [position \in DOMAIN tr.calibrated_points |->
                      twice_distance_sq(position)],
              points |-> tr.calibration_screen_points]

\* lines 459-488: the tracker after the call and the value returned.
\* has_frame: a frame was passed in; ok: webcam.read() gave a frame
get_gaze_point(tr, has_frame, ok, eye_position) ==
    IF ~tr.is_calibrated THEN [tracker |-> tr, value |-> NoGaze]
    ELSE LET t1 == IF tr.webcam = "none" THEN start_webcam(tr) ELSE tr
         IN  IF ~has_frame /\ ~ok THEN [tracker |-> t1, value |-> NoGaze]
             ELSE [tracker |-> t1,
                   value |-> map_eye_position_to_screen(t1, eye_position)]

\* lines 611-614, the instance's part: the camera is released
stop_tracking(tr) == stop_webcam(tr)

\* a calibrate() run to its end by the user: every position captured at the
\* first attempt (calibrated), or aborted at the first target
CalibrationRun(tr, calibrated) ==
    LET full == [i \in 1 .. calibration_samples |->
                    <<<<30, 20>>, <<50, 20>>>>]
        RECURSIVE run(_)
        run(t) == IF t.root = "open"
                  THEN run(capture_current_position(t, full))
                  ELSE t
    IN  IF calibrated THEN run(calibrate(tr))
        ELSE end_calibration(calibrate(tr))

\* ------------------------------------------------------------------------
\* The gaze tracking thread (facial-recognition/main.py:587-603) and
\* handle_gaze (coordinate_manager.py:109-113, 139-143)
\* ------------------------------------------------------------------------

\* the thread has ended: its loop was left or an exception ended it
TrackingOver == tracker_pc.at \in {"none", "done", "raised"}

\* Line 589: while self._tracking_active
tracking_loop_test ==
    /\ tracker_pc.at = "loop"
    /\ tracker_pc' = [at |-> IF tracker_pc.active THEN "read" ELSE "done",
                      active |-> tracker_pc.active]
    /\ UNCHANGED <<outside, managerFlags, gazeSlot, mouseSlot, screen_analyzer,
                   gridTriple, continuousState, eyeTracking, pc, upd, frame,
                   mouse_pc, next_gen, ret, q>>

\* Line 593: ret, frame = self.webcam.read() (ok: a frame was read).  Once
\* stop_webcam has set self.webcam to None the call raises AttributeError,
\* which nothing in the thread catches.
tracking_loop_read(ok) ==
    /\ tracker_pc.at = "read"
    /\ tracker_pc' = [at |-> IF tracker.webcam = "none" THEN "raised"
                             ELSE IF ok THEN "gaze" ELSE "loop",
                      active |-> tracker_pc.active]
    /\ UNCHANGED <<outside, managerFlags, gazeSlot, mouseSlot, screen_analyzer,
                   gridTriple, continuousState, eyeTracking, pc, upd, frame,
                   mouse_pc, next_gen, ret, q>>

\* Lines 594-597: get_gaze_point(frame) maps the pupils of the frame; if it
\* returns a point (g: the point as integers), handle_gaze stores its x.
tracking_loop_gaze(eye_position, g) ==
    /\ tracker_pc.at = "gaze"
    /\ LET r == get_gaze_point(tracker, TRUE, TRUE, eye_position)
       IN  /\ tracker' = r.tracker
           /\ IF r.value # NoGaze
              THEN /\ shared_eye_x' = g[1]
                   /\ tracker_pc' = [at |-> "publish_y",
                                     active |-> tracker_pc.active,
                                     y |-> g[2]]
              ELSE /\ shared_eye_x' = shared_eye_x
                   /\ tracker_pc' = [at |-> "loop",
                                     active |-> tracker_pc.active]
    /\ UNCHANGED <<outside, managerFlags, shared_eye_y, mouseSlot,
                   screen_analyzer, gridTriple, continuousState, eye_tracker,
                   calibration_file, pc, upd, frame, mouse_pc, next_gen, ret,
                   q>>

\* handle_gaze stores y.
tracking_loop_publish_y ==
    /\ tracker_pc.at = "publish_y"
    /\ shared_eye_y' = tracker_pc.y
    /\ tracker_pc' = [at |-> "loop", active |-> tracker_pc.active]
    /\ UNCHANGED <<outside, managerFlags, shared_eye_x, mouseSlot,
                   screen_analyzer, gridTriple, continuousState, eyeTracking,
                   pc, upd, frame, mouse_pc, next_gen, ret, q>>

\* ------------------------------------------------------------------------
\* toggle_eye_tracking, setup_eye_tracking and load_calibration_and_track
\* (coordinate_manager.py:56-168, main.py:127-165 with use_dummy_tracker
\* false)
\* ------------------------------------------------------------------------

\* the part of the state these methods work on; active is the
\* _tracking_active flag of the instance
EyeState ==
    [enabled |-> eye_tracking_enabled, eye_tracker |-> eye_tracker,
     tracker |-> tracker, active |-> tracker_pc.active,
     file |-> calibration_file]

SetEyeState(st) ==
    /\ eye_tracking_enabled' = st.enabled
    /\ eye_tracker' = st.eye_tracker
    /\ tracker' = st.tracker
    /\ tracker_pc' = [tracker_pc EXCEPT !.active = st.active]
    /\ calibration_file' = st.file

\* toggle_eye_tracking(False), lines 160-168: stop_tracking() clears
\* _tracking_active and releases the camera; coordinate_manager.py then
\* forgets the tracker (main.py:159-165 keeps it)
EyeTrackingOff(st) ==
    IF ~st.enabled THEN st
    ELSE IF st.eye_tracker = NoTracker THEN [st EXCEPT !.enabled = FALSE]
    ELSE [st EXCEPT !.enabled = FALSE,
                    !.tracker = stop_tracking(@),
                    !.active = FALSE,
                    !.eye_tracker = IF impl = "main" THEN @ ELSE NoTracker]

\* calibrate.py:23-28: the record run_calibration writes for a calibrated
\* tracker.  json writes the pupil and screen tuples as arrays and reads them
\* back as lists; both are sequences here.
CalibrationData(tr) ==
    [calibrated_points |-> tr.calibrated_points,
     calibration_screen_points |-> tr.calibration_screen_points,
     screen_width |-> TrackerScreen.w,
     screen_height |-> TrackerScreen.h]

\* line 81-86
RequiredKeys ==
    {"calibrated_points", "calibration_screen_points", "screen_width",
     "screen_height"}

\* the record without one of its fields
Without(data, key) == [k \in (DOMAIN data) \ {key} |-> data[k]]

\* the file written by run_calibration() after a complete calibration
SavedFile ==
    [exists |-> TRUE,
     data |-> CalibrationData(
                  CalibrationRun(EyeTracker(DefaultScreenPoints), TRUE))]

\* the files load_calibration_and_track can be pointed at: none at that
\* path, a record lacking a required field, a record of run_calibration
CalibrationFiles ==
    {[exists |-> FALSE]} \cup {SavedFile}
        \cup {[exists |-> TRUE, data |-> Without(SavedFile.data, key)] :
                 key \in RequiredKeys}

\* load_calibration_and_track, lines 66-127.  Tracking in progress is
\* stopped first (lines 68-69).  For a complete record line 92 stores the
\* path and line 95 calls EyeTracker(callibrated_points=...), a parameter
\* EyeTracker.__init__ (facial-recognition/main.py:11-17) does not have: the
\* TypeError is caught at line 122.
LoadCalibrationAndTrack(st, file) ==
    LET s1 == EyeTrackingOff(st)
    IN  IF ~file.exists THEN [state |-> s1, ok |-> FALSE]
        ELSE IF ~(RequiredKeys \subseteq DOMAIN file.data)
        THEN [state |-> s1, ok |-> FALSE]
        ELSE [state |-> [s1 EXCEPT !.file = file,
                                   !.eye_tracker = NoTracker,
                                   !.enabled = FALSE],
              ok |-> FALSE]

load_calibration_and_track(file) ==
    /\ impl = "coordinate_manager"
    /\ pc[0] = "idle"
    /\ LET r == LoadCalibrationAndTrack(EyeState, file)
       IN  /\ SetEyeState(r.state)
           /\ ret' = [op |-> "load_calibration_and_track", file |-> file,
                      ok |-> r.ok, before |-> EyeState]
    /\ UNCHANGED <<outside, importance_grid_enabled, gazeSlot, mouseSlot,
                   screen_analyzer, gridTriple, continuousState, pc, upd,
                   frame, mouse_pc, next_gen, q>>

\* toggle_eye_tracking (lines 153-168).  Turning on sets the flag and runs
\* setup_eye_tracking: with a calibration file it is load_calibration_and_track
\* (lines 132-133), without one a new EyeTracker is calibrated by the user
\* (calibrated: the calibration was completed) and, if calibrated, tracking
\* starts.  A tracking thread stopped by an earlier toggle has ended by the
\* time a calibration is over.
toggle_eye_tracking(enabled, calibrated) ==
    /\ pc[0] = "idle"
    /\ IF enabled /\ ~eye_tracking_enabled
       THEN IF impl = "coordinate_manager" /\ calibration_file # NoFile
            THEN SetEyeState(LoadCalibrationAndTrack(
                                 [EyeState EXCEPT !.enabled = TRUE],
                                 calibration_file).state)
            ELSE /\ TrackingOver
                 /\ LET tr == CalibrationRun(EyeTracker(DefaultScreenPoints),
                                             calibrated)
                    IN  tracker' = IF calibrated THEN start_webcam(tr) ELSE tr
                 /\ eye_tracker' = TheTracker
                 /\ eye_tracking_enabled' = calibrated
                 /\ tracker_pc' = IF calibrated
                                  THEN [at |-> "loop", active |-> TRUE]
                                  ELSE tracker_pc
                 /\ calibration_file' = calibration_file
       ELSE IF ~enabled
            THEN SetEyeState(EyeTrackingOff(EyeState))
            ELSE UNCHANGED <<eye_tracking_enabled, eyeTracking, tracker_pc>>
    /\ ret' = [op |-> "toggle_eye_tracking", enabled |-> enabled]
    /\ UNCHANGED <<outside, importance_grid_enabled, gazeSlot, mouseSlot,
                   screen_analyzer, gridTriple, continuousState, pc, upd,
                   frame, mouse_pc, next_gen, q>>

\* ------------------------------------------------------------------------
\* coordinate_manager.py: setup_importance_grid and update_importance_grid
\* (lines 184-210), run by the foreground thread (0) or by a worker
\* ------------------------------------------------------------------------

\* where thread t continues after update_importance_grid returns
AfterUpdate(t) == IF t = 0 THEN "idle" ELSE "w_wait"

\* where thread t continues after update_importance_grid raises: the worker
\* in its except clause (line 307), the foreground call is abandoned
AfterRaise(t) == IF t = 0 THEN "idle" ELSE "w_backoff"

\* a thread leaves update_importance_grid (or the call that led to it)
Leave(t, target, raised) ==
    /\ pc' = [pc EXCEPT ![t] = target]
    /\ IF t = 0
       THEN /\ ret' = [op |-> frame.op, raised |-> raised]
            /\ frame' = NoCall
       ELSE UNCHANGED <<ret, frame>>

\* Lines 200-205 (and 186-193 when entered through setup_importance_grid).
\* Without an analyzer setup_importance_grid constructs one with
\* ScreenAnalyzer(wait_seconds=4, ...): ScreenAnalyzer.__init__
\* (ocr/main.py:16-32) has no such parameter, so the call raises TypeError.
\* With an analyzer the screen is captured (c = 0: the grab failed).
update_importance_grid_enter(t, c) ==
    /\ pc[t] = "u_enter"
    /\ IF screen_analyzer = NoAnalyzer
       THEN /\ Leave(t, AfterRaise(t), TRUE)
            /\ UNCHANGED screen_analyzer
       ELSE /\ screen_analyzer' = capture_screen(screen_analyzer, c)
            /\ pc' = [pc EXCEPT ![t] = "u_generate"]
            /\ UNCHANGED <<ret, frame>>
    /\ UNCHANGED <<outside, managerFlags, gazeSlot, mouseSlot, gridTriple,
                   continuousState, eyeTracking, upd, tracker_pc, mouse_pc,
                   next_gen, q>>

\* Lines 206-209, right-hand side: generate_importance_grid() returns the
\* triple of this recompute.
update_importance_grid_generate(t, retry, grab) ==
    /\ pc[t] = "u_generate"
    /\ LET g == generate_importance_grid(screen_analyzer, retry, grab)
       IN  /\ screen_analyzer' = g.an
           /\ upd' = [upd EXCEPT ![t] =
                        [gen |-> next_gen, cells |-> g.cells,
                         dims |-> g.dims, matrix |-> g.matrix]]
    /\ next_gen' = (next_gen + 1) % NumGens
    /\ pc' = [pc EXCEPT ![t] = "u_store_cells"]
    /\ UNCHANGED <<outside, managerFlags, gazeSlot, mouseSlot, gridTriple,
                   continuousState, eyeTracking, frame, tracker_pc, mouse_pc,
                   ret, q>>

\* Line 207: self.grid_cells is stored
update_importance_grid_store_cells(t) ==
    /\ pc[t] = "u_store_cells"
    /\ grid_cells' = [gen |-> upd[t].gen, val |-> upd[t].cells]
    /\ pc' = [pc EXCEPT ![t] = "u_store_dims"]
    /\ UNCHANGED <<outside, managerFlags, gazeSlot, mouseSlot, screen_analyzer,
                   cell_dimensions, importance_matrix, continuousState,
                   eyeTracking, upd, frame, tracker_pc, mouse_pc, next_gen,
                   ret, q>>

\* Line 207: self.cell_dimensions is stored
update_importance_grid_store_dims(t) ==
    /\ pc[t] = "u_store_dims"
    /\ cell_dimensions' = [gen |-> upd[t].gen, val |-> upd[t].dims]
    /\ pc' = [pc EXCEPT ![t] = "u_store_matrix"]
    /\ UNCHANGED <<outside, managerFlags, gazeSlot, mouseSlot, screen_analyzer,
                   grid_cells, importance_matrix, continuousState,
                   eyeTracking, upd, frame, tracker_pc, mouse_pc, next_gen,
                   ret, q>>

\* Line 207: self.importance_matrix is stored, and the call returns
update_importance_grid_store_matrix(t) ==
    /\ pc[t] = "u_store_matrix"
    /\ importance_matrix' = [gen |-> upd[t].gen, val |-> upd[t].matrix]
    /\ upd' = [upd EXCEPT ![t] = NoTriple]
    /\ Leave(t, AfterUpdate(t), FALSE)
    /\ UNCHANGED <<outside, managerFlags, gazeSlot, mouseSlot, screen_analyzer,
                   grid_cells, cell_dimensions, continuousState, eyeTracking,
                   tracker_pc, mouse_pc, next_gen, q>>

\* update_importance_grid() called by the owner of the manager
update_importance_grid ==
    /\ impl = "coordinate_manager"
    /\ Begin("update_importance_grid")
    /\ frame' = [op |-> "update_importance_grid"]
    /\ pc' = [pc EXCEPT ![0] = "u_enter"]
    /\ UNCHANGED <<outside, managerFlags, gazeSlot, mouseSlot, screen_analyzer,
                   gridTriple, continuousState, eyeTracking, upd, tracker_pc,
                   mouse_pc, next_gen, q>>

\* ------------------------------------------------------------------------
\* coordinate_manager.py: _continuous_update_loop (lines 298-310)
\* ------------------------------------------------------------------------

\* Line 301: while not self.continuous_update_stop_event.is_set()
continuous_update_loop_test(w) ==
    /\ pc[w] = "w_loop"
    /\ pc' = [pc EXCEPT ![w] = IF continuous_update_stop_event
                                THEN "done" ELSE "w_flag"]
    /\ UNCHANGED <<outside, managerFlags, gazeSlot, mouseSlot, screen_analyzer,
                   gridTriple, continuousState, eyeTracking, upd, frame,
                   tracker_pc, mouse_pc, next_gen, ret, q>>

\* Line 303: if self.importance_grid_enabled, before the call of line 304
continuous_update_loop_flag(w) ==
    /\ pc[w] = "w_flag"
    /\ pc' = [pc EXCEPT ![w] = IF importance_grid_enabled
                                THEN "u_enter" ELSE "w_wait"]
    /\ UNCHANGED <<outside, managerFlags, gazeSlot, mouseSlot, screen_analyzer,
                   gridTriple, continuousState, eyeTracking, upd, frame,
                   tracker_pc, mouse_pc, next_gen, ret, q>>

\* Line 306: stop_event.wait(interval) returns, the event set or the
\* interval over
continuous_update_loop_wait(w) ==
    /\ pc[w] = "w_wait"
    /\ pc' = [pc EXCEPT ![w] = "w_loop"]
    /\ UNCHANGED <<outside, managerFlags, gazeSlot, mouseSlot, screen_analyzer,
                   gridTriple, continuousState, eyeTracking, upd, frame,
                   tracker_pc, mouse_pc, next_gen, ret, q>>

\* Lines 307-310: the except clause slept its second
continuous_update_loop_backoff(w) ==
    /\ pc[w] = "w_backoff"
    /\ pc' = [pc EXCEPT ![w] = "w_loop"]
    /\ UNCHANGED <<outside, managerFlags, gazeSlot, mouseSlot, screen_analyzer,
                   gridTriple, continuousState, eyeTracking, upd, frame,
                   tracker_pc, mouse_pc, next_gen, ret, q>>

\* ------------------------------------------------------------------------
\* coordinate_manager.py: start_continuous_updates, stop_continuous_updates
\* (lines 312-346) and toggle_importance_map (lines 170-182)
\* ------------------------------------------------------------------------

\* Thread.is_alive()
is_alive(w) == pc[w] \notin {"unborn", "done"}

\* a thread object that is not running: a new thread can take its place
FreeWorkers == {w \in Workers : ~is_alive(w)}

\* what a thread can stay in for a second or more: the capture and analysis
\* of the screen, the sleep(1.0) of the except clause.  join(timeout=1.0)
\* does not time out on a thread that is only a few instructions from its
\* next blocking point.
LongRunning(w) == pc[w] \in {"u_generate", "w_backoff"}

\* Lines 319-324
start_continuous_updates(interval) ==
    /\ impl = "coordinate_manager"
    /\ Begin("start_continuous_updates")
    /\ FreeWorkers # {}
    /\ IF continuous_update
       THEN /\ UNCHANGED <<continuousState, pc, frame>>
       ELSE /\ continuous_update' = TRUE
            /\ continuous_update_interval' = interval
            /\ continuous_update_stop_event' = FALSE
            /\ frame' = [op |-> "start_continuous_updates"]
            /\ pc' = [pc EXCEPT ![0] = "start_thread"]
            /\ UNCHANGED continuous_update_thread
    /\ UNCHANGED <<outside, managerFlags, gazeSlot, mouseSlot, screen_analyzer,
                   gridTriple, eyeTracking, upd, tracker_pc, mouse_pc,
                   next_gen, q>>

\* Lines 326-334: a thread is created unless the one on record is alive
start_continuous_updates_thread ==
    /\ pc[0] = "start_thread"
    /\ IF continuous_update_thread = NoThread
          \/ ~is_alive(continuous_update_thread)
       THEN LET w == CHOOSE f \in FreeWorkers :
                               \A g \in FreeWorkers : f <= g
            IN  /\ continuous_update_thread' = w
                /\ pc' = [pc EXCEPT ![0] = "idle", ![w] = "w_loop"]
       ELSE /\ pc' = [pc EXCEPT ![0] = "idle"]
            /\ UNCHANGED continuous_update_thread
    /\ frame' = NoCall
    /\ ret' = [op |-> "start_continuous_updates", raised |-> FALSE]
    /\ UNCHANGED <<outside, managerFlags, gazeSlot, mouseSlot, screen_analyzer,
                   gridTriple, continuous_update, continuous_update_interval,
                   continuous_update_stop_event, eyeTracking, upd, tracker_pc,
                   mouse_pc, next_gen, q>>

\* Lines 338-342, reached from stop_continuous_updates or from
\* toggle_importance_map(False)
stop_continuous_updates_begin ==
    /\ pc[0] = "stop_begin"
    /\ IF ~continuous_update
       THEN /\ Return([op |-> frame.op, raised |-> FALSE])
            /\ UNCHANGED <<continuous_update, continuous_update_stop_event>>
       ELSE /\ continuous_update' = FALSE
            /\ continuous_update_stop_event' = TRUE
            /\ pc' = [pc EXCEPT ![0] = "stop_check"]
            /\ UNCHANGED <<frame, ret>>
    /\ UNCHANGED <<outside, managerFlags, gazeSlot, mouseSlot, screen_analyzer,
                   gridTriple, continuous_update_interval,
                   continuous_update_thread, eyeTracking, upd, tracker_pc,
                   mouse_pc, next_gen, q>>

\* Line 344: if self.continuous_update_thread and it is alive
stop_continuous_updates_check ==
    /\ pc[0] = "stop_check"
    /\ IF continuous_update_thread # NoThread
          /\ is_alive(continuous_update_thread)
       THEN /\ pc' = [pc EXCEPT ![0] = "stop_join"]
            /\ UNCHANGED <<frame, ret>>
       ELSE Return([op |-> frame.op, raised |-> FALSE])
    /\ UNCHANGED <<outside, managerFlags, gazeSlot, mouseSlot, screen_analyzer,
                   gridTriple, continuousState, eyeTracking, upd, tracker_pc,
                   mouse_pc, next_gen, q>>

\* Lines 345-346: join(timeout=1.0) returns, the thread over or the second
\* over, and the thread on record is forgotten
stop_continuous_updates_join ==
    /\ pc[0] = "stop_join"
    /\ \/ ~is_alive(continuous_update_thread)
       \/ LongRunning(continuous_update_thread)
    /\ continuous_update_thread' = NoThread
    /\ Return([op |-> frame.op, raised |-> FALSE])
    /\ UNCHANGED <<outside, managerFlags, gazeSlot, mouseSlot, screen_analyzer,
                   gridTriple, continuous_update, continuous_update_interval,
                   continuous_update_stop_event, eyeTracking, upd, tracker_pc,
                   mouse_pc, next_gen, q>>

\* stop_continuous_updates() called by the owner of the manager
stop_continuous_updates ==
    /\ impl = "coordinate_manager"
    /\ Begin("stop_continuous_updates")
    /\ frame' = [op |-> "stop_continuous_updates"]
    /\ pc' = [pc EXCEPT ![0] = "stop_begin"]
    /\ UNCHANGED <<outside, managerFlags, gazeSlot, mouseSlot, screen_analyzer,
                   gridTriple, continuousState, eyeTracking, upd, tracker_pc,
                   mouse_pc, next_gen, q>>

\* set_continuous_update_interval: the smallest interval it stores (1.0 s)
MinInterval == 10

\* Lines 348-354: self.continuous_update_interval = max(1.0, interval)
set_continuous_update_interval(interval) ==
    /\ impl = "coordinate_manager"
    /\ Begin("set_continuous_update_interval")
    /\ continuous_update_interval' = Max(MinInterval, interval)
    /\ UNCHANGED <<outside, managerFlags, gazeSlot, mouseSlot, screen_analyzer,
                   gridTriple, continuous_update, continuous_update_thread,
                   continuous_update_stop_event, eyeTracking, pc, upd, frame,
                   tracker_pc, mouse_pc, next_gen, q>>

\* where toggle_importance_map(False) goes after line 180: line 182 calls
\* stop_continuous_updates
toggle_off_target == "stop_begin"

\* Lines 173-182.  Turning on computes the grid if there is no matrix yet
\* (setup_importance_grid); turning off clears the flag and stops the
\* continuous updates.
toggle_importance_map(enabled) ==
    /\ impl = "coordinate_manager"
    /\ Begin("toggle_importance_map")
    /\ frame' = [op |-> IF enabled THEN "toggle_importance_map_on"
                        ELSE "toggle_importance_map_off"]
    /\ IF enabled /\ ~importance_grid_enabled
       THEN /\ importance_grid_enabled' = TRUE
            /\ pc' = [pc EXCEPT ![0] = IF importance_matrix = NoMatrix
                                        THEN "u_enter" ELSE "done_call"]
       ELSE IF ~enabled
            THEN /\ importance_grid_enabled' = FALSE
                 /\ pc' = [pc EXCEPT ![0] = toggle_off_target]
            ELSE /\ pc' = [pc EXCEPT ![0] = "done_call"]
                 /\ UNCHANGED importance_grid_enabled
    /\ UNCHANGED <<outside, eye_tracking_enabled, gazeSlot, mouseSlot,
                   screen_analyzer, gridTriple, continuousState, eyeTracking,
                   upd, tracker_pc, mouse_pc, next_gen, q>>

\* a foreground call with nothing left to do returns
call_returns ==
    /\ pc[0] = "done_call"
    /\ Return([op |-> frame.op, raised |-> FALSE])
    /\ UNCHANGED <<outside, managerFlags, gazeSlot, mouseSlot, screen_analyzer,
                   gridTriple, continuousState, eyeTracking, upd, tracker_pc,
                   mouse_pc, next_gen, q>>

\* ------------------------------------------------------------------------
\* coordinate_manager.py: cleanup (lines 356-372)
\* ------------------------------------------------------------------------

\* the attributes of a manager that were read before: those __init__
\* (lines 19-54) assigns; no other method assigns a new one
ManagerAttributes ==
    {"eye_tracking_enabled", "importance_grid_enabled", "shared_eye_x",
     "shared_eye_y", "mouse_x", "mouse_y", "eye_tracker", "screen_analyzer",
     "importance_matrix", "grid_cells", "cell_dimensions", "tracking_thread",
     "dummy_thread", "stop_event", "continuous_update",
     "continuous_update_interval", "continuous_update_thread",
     "continuous_update_stop_event", "calibration_file"}

\* Lines 362-369: with eye tracking enabled and a tracker, stop_tracking()
\* and stop_webcam(); stop_event and dummy_thread are None
CleanupEyeTracking(st) ==
    IF st.enabled /\ st.eye_tracker # NoTracker
    THEN [st EXCEPT !.tracker = stop_webcam(stop_tracking(@)),
                    !.active = FALSE]
    ELSE st

\* Line 358 assigns self.mouse_thread_active; line 359 reads
\* self.mouse_thread: AttributeError unless the manager has that attribute,
\* and then nothing of lines 362-372 runs.  Past line 360 the eye tracking
\* is stopped and line 372 calls stop_continuous_updates.
cleanup ==
    /\ impl = "coordinate_manager"
    /\ pc[0] = "idle"
    /\ IF "mouse_thread" \notin ManagerAttributes
       THEN /\ ret' = [op |-> "cleanup", raised |-> TRUE,
                       error |-> "AttributeError"]
            /\ UNCHANGED <<eye_tracking_enabled, eyeTracking, tracker_pc, pc,
                           frame>>
       ELSE /\ SetEyeState(CleanupEyeTracking(EyeState))
            /\ frame' = [op |-> "cleanup"]
            /\ pc' = [pc EXCEPT ![0] = "stop_begin"]
            /\ ret' = NoCall
    /\ UNCHANGED <<outside, importance_grid_enabled, gazeSlot, mouseSlot,
                   screen_analyzer, gridTriple, continuousState, upd,
                   mouse_pc, next_gen, q>>

\* ------------------------------------------------------------------------
\* main.py: the CoordinateManager of the application entry point
\* ------------------------------------------------------------------------

\* _track_mouse (lines 116-125): pyautogui.position() is stored, x first
track_mouse_store_x(mx, my) ==
    /\ mouse_pc.at = "sample"
    /\ mouse_x' = mx
    /\ mouse_pc' = [at |-> "store_y", y |-> my]
    /\ UNCHANGED <<outside, managerFlags, gazeSlot, mouse_y, screen_analyzer,
                   gridTriple, continuousState, eyeTracking, pc, upd, frame,
                   tracker_pc, next_gen, ret, q>>

\* _track_mouse: self.mouse_y = y, then the sleep
track_mouse_store_y ==
    /\ mouse_pc.at = "store_y"
    /\ mouse_y' = mouse_pc.y
    /\ mouse_pc' = [at |-> "sample"]
    /\ UNCHANGED <<outside, managerFlags, gazeSlot, mouse_x, screen_analyzer,
                   gridTriple, continuousState, eyeTracking, pc, upd, frame,
                   tracker_pc, next_gen, ret, q>>

\* Line 264, first read: self.mouse_x
main_get_coordinates_begin ==
    /\ impl = "main"
    /\ Begin("get_coordinates")
    /\ frame' = [op |-> "get_coordinates", mouse_x |-> mouse_x,
                 mouse |-> <<Px(0), Px(0)>>, xy |-> <<Px(0), Px(0)>>,
                 gaze |-> <<Px(0), Px(0)>>]
    /\ pc' = [pc EXCEPT ![0] = "m_gc_mouse_y"]
    /\ UNCHANGED <<outside, managerFlags, gazeSlot, mouseSlot, screen_analyzer,
                   gridTriple, continuousState, eyeTracking, upd, tracker_pc,
                   mouse_pc, next_gen, q>>

\* Line 264, second read: self.mouse_y
main_get_coordinates_mouse_y ==
    /\ pc[0] = "m_gc_mouse_y"
    /\ frame' = [frame EXCEPT !.mouse = <<Px(frame.mouse_x), Px(mouse_y)>>,
                              !.xy = <<Px(frame.mouse_x), Px(mouse_y)>>]
    /\ pc' = [pc EXCEPT ![0] = "m_gc_eye"]
    /\ UNCHANGED <<outside, managerFlags, gazeSlot, mouseSlot, screen_analyzer,
                   gridTriple, continuousState, eyeTracking, upd, tracker_pc,
                   mouse_pc, next_gen, ret, q>>

\* Lines 267-268: with eye tracking shared_eye_x.value is read
main_get_coordinates_eye ==
    /\ pc[0] = "m_gc_eye"
    /\ IF use_eye(eye_tracking_enabled)
       THEN /\ frame' = [frame EXCEPT !.gaze = <<Px(shared_eye_x), Px(0)>>]
            /\ pc' = [pc EXCEPT ![0] = "m_gc_eye_y"]
       ELSE /\ frame' = frame
            /\ pc' = [pc EXCEPT ![0] = "m_gc_find"]
    /\ UNCHANGED <<outside, managerFlags, gazeSlot, mouseSlot, screen_analyzer,
                   gridTriple, continuousState, eyeTracking, upd, tracker_pc,
                   mouse_pc, next_gen, ret, q>>

\* Line 268, second read: shared_eye_y.value
main_get_coordinates_eye_y ==
    /\ pc[0] = "m_gc_eye_y"
    /\ LET gaze == <<frame.gaze[1], Px(shared_eye_y)>>
       IN  frame' = [frame EXCEPT !.gaze = gaze, !.xy = gaze]
    /\ pc' = [pc EXCEPT ![0] = "m_gc_find"]
    /\ UNCHANGED <<outside, managerFlags, gazeSlot, mouseSlot, screen_analyzer,
                   gridTriple, continuousState, eyeTracking, upd, tracker_pc,
                   mouse_pc, next_gen, ret, q>>

\* line 272 with the query made on the mouse coordinate
importance_input_mouse(xy, mouse) == mouse

\* line 272: find_important_area_near(x, y) is given the coordinate chosen
\* so far, mouse or gaze
importance_input(xy, mouse) == xy

\* the value and the record of main.py's get_coordinates for the query point p
MainGetCoordinatesRecord(p) ==
    LET value == IF importance_grid_enabled
                 THEN find_important_area_near(
                          importance_grid_enabled, Val(importance_matrix),
                          Val(cell_dimensions), p[1], p[2],
                          DefaultRadius, DefaultThreshold)
                 ELSE frame.xy
    IN  [op |-> "get_coordinates", value |-> value,
         raised |-> value \in Exceptions,
         mouse |-> frame.mouse,
         grid |-> importance_grid_enabled,
         had_matrix |-> importance_matrix # NoMatrix,
         matrix |-> Val(importance_matrix),
         dims |-> Val(cell_dimensions),
         found |-> frame.xy,
         dims_gen |-> -1,
         matrix_gen |-> -1,
         eye |-> eye_tracking_enabled,
         gaze |-> frame.gaze]

\* Lines 271-274
main_get_coordinates_find ==
    /\ pc[0] = "m_gc_find"
    /\ Return(MainGetCoordinatesRecord(importance_input(frame.xy, frame.mouse)))
    /\ UNCHANGED <<outside, managerFlags, gazeSlot, mouseSlot, screen_analyzer,
                   gridTriple, continuousState, eyeTracking, upd, tracker_pc,
                   mouse_pc, next_gen, q>>

\* main.py setup_importance_grid (lines 179-190): the analyzer is created if
\* missing, the screen captured (c) and the grid generated and stored.  No
\* other thread of main.py reads or writes the grid.
MainSetupImportanceGrid(c, retry, grab) ==
    LET an == IF screen_analyzer = NoAnalyzer
              THEN ScreenAnalyzer(MainGridX, MainGridY)
              ELSE screen_analyzer
        g == generate_importance_grid(capture_screen(an, c), retry, grab)
    IN  /\ screen_analyzer' = g.an
        /\ grid_cells' = [gen |-> 0, val |-> g.cells]
        /\ cell_dimensions' = [gen |-> 0, val |-> g.dims]
        /\ importance_matrix' = [gen |-> 0, val |-> g.matrix]

main_setup_importance_grid(c, retry, grab) ==
    /\ impl = "main"
    /\ Begin("setup_importance_grid")
    /\ MainSetupImportanceGrid(c, retry, grab)
    /\ UNCHANGED <<outside, managerFlags, gazeSlot, mouseSlot, continuousState,
                   eyeTracking, pc, upd, frame, tracker_pc, mouse_pc,
                   next_gen, q>>

\* main.py toggle_importance_map (lines 167-177)
main_toggle_importance_map(enabled, c, retry, grab) ==
    /\ impl = "main"
    /\ Begin("toggle_importance_map")
    /\ IF enabled /\ ~importance_grid_enabled
       THEN /\ importance_grid_enabled' = TRUE
            /\ IF importance_matrix = NoMatrix
               THEN MainSetupImportanceGrid(c, retry, grab)
               ELSE UNCHANGED <<screen_analyzer, gridTriple>>
       ELSE /\ importance_grid_enabled' = (importance_grid_enabled /\ enabled)
            /\ UNCHANGED <<screen_analyzer, gridTriple>>
    /\ UNCHANGED <<outside, eye_tracking_enabled, gazeSlot, mouseSlot,
                   continuousState, eyeTracking, pc, upd, frame, tracker_pc,
                   mouse_pc, next_gen, q>>

\* ------------------------------------------------------------------------
\* SpecQuery: find_important_area_near called with a matrix, cell dimensions
\* and a query of the caller's choice
\* ------------------------------------------------------------------------

\* the two grids of the program on a 1280x720 screen: 9 columns x 16 rows
\* (coordinate_manager.py:184) and 16 columns x 9 rows (main.py:182)
QueryShapes ==
    {[rows |-> GridY, cols |-> GridX, dims |-> <<1280 \div GridX, 720 \div GridY>>],
     [rows |-> MainGridY, cols |-> MainGridX,
      dims |-> <<1280 \div MainGridX, 720 \div MainGridY>>]}

\* cells that can stand out of the background, as <<row, col, value>>
HotCells ==
    {<<6, 3, 3 * One>>, <<3, 6, 2 * One>>, <<5, 4, One \div 2>>,
     <<0, 0, (3 * One) \div 4>>}

\* the sets of at most MaxHot cells of HotCells
HotSets == {h \in SUBSET HotCells : Cardinality(h) <= MaxHot}

QueryMatrices ==
    {Matrix(sh.rows, sh.cols, base, hot) :
        sh \in QueryShapes, base \in {0, One}, hot \in HotSets}

\* query points: inside the grid, at its corners, left of and above it
QueryPoints ==
    {<<500, 300>>, <<100, 40>>, <<1279, 719>>, <<-300, 300>>, <<-700, -300>>}

QueryRadii == {DefaultRadius, 450}

\* thresholds in tenths
QueryThresholds == {5, DefaultThreshold, 12}

\* factors k = k[1] / k[2] by which a matrix is scaled
QueryFactors == {<<2, 1>>, <<1, 2>>}

\* k * M
Scaled(m, k) ==
    [m EXCEPT !.base = (m.base * k[1]) \div k[2],
              !.hot = {<<h[1], h[2], (h[3] * k[1]) \div k[2]>> : h \in m.hot}]

\* the cell dimensions that belong to a matrix of QueryMatrices
DimsOf(m) == (CHOOSE sh \in QueryShapes : sh.rows = m.rows /\ sh.cols = m.cols).dims

InitQuery ==
    /\ impl = "coordinate_manager"
    /\ tracker = NoTracker
    /\ magnifier = NoMagnifier
    /\ ManagerInit(FALSE, TRUE)
    /\ screen_analyzer = NoAnalyzer
    /\ mouse_pc = [at |-> "none"]
    /\ q \in {[pc |-> "input", m |-> m, dims |-> DimsOf(m),
               x |-> Px(p[1]), y |-> Px(p[2]), radius |-> radius, t |-> t,
               k |-> k] :
                 m \in QueryMatrices, p \in QueryPoints, radius \in QueryRadii,
                 t \in QueryThresholds, k \in QueryFactors}

\* find_important_area_near(x, y, radius, importance_threshold) is called
find_call ==
    /\ q.pc = "input"
    /\ q' = [pc |-> "returned", m |-> q.m, dims |-> q.dims, x |-> q.x,
             y |-> q.y, radius |-> q.radius, t |-> q.t, k |-> q.k,
             result |-> find_important_area_near(TRUE, q.m, q.dims, q.x, q.y,
                                                 q.radius, q.t)]
    /\ UNCHANGED <<outside, managerFlags, gazeSlot, mouseSlot, screen_analyzer,
                   gridTriple, continuousState, eyeTracking, pc, upd, frame,
                   tracker_pc, mouse_pc, next_gen, ret>>

\* the function is called again on the pair it returned, when that pair is
\* the pair it was given
find_again ==
    /\ q.pc = "returned"
    /\ q.result = <<q.x, q.y>>
    /\ q' = [pc |-> "again", m |-> q.m, dims |-> q.dims, x |-> q.x,
             y |-> q.y, radius |-> q.radius, t |-> q.t, k |-> q.k,
             result |-> q.result,
             result2 |-> find_important_area_near(
                             TRUE, q.m, q.dims, q.result[1], q.result[2],
                             q.radius, q.t)]
    /\ UNCHANGED <<outside, managerFlags, gazeSlot, mouseSlot, screen_analyzer,
                   gridTriple, continuousState, eyeTracking, pc, upd, frame,
                   tracker_pc, mouse_pc, next_gen, ret>>

\* the same query is made on k * M: lines 234-247 give the importance mask
\* of both (empty when the search area is empty)
find_scaled ==
    /\ q.pc = "returned"
    /\ LET rows == SearchRows(q.m, q.dims, q.y.v, q.radius)
           cols == SearchCols(q.m, q.dims, q.x.v, q.radius)
           none == rows = {} \/ cols = {}
       IN  q' = [pc |-> "scaled", m |-> q.m, dims |-> q.dims, x |-> q.x,
                 y |-> q.y, radius |-> q.radius, t |-> q.t, k |-> q.k,
                 result |-> q.result,
                 rows |-> rows, cols |-> cols,
                 mask |-> IF none THEN {}
                          ELSE importance_mask(q.m, rows, cols, q.t),
                 mask_k |-> IF none THEN {}
                            ELSE importance_mask(Scaled(q.m, q.k), rows, cols,
                                                 q.t),
                 result_k |-> find_important_area_near(
                                  TRUE, Scaled(q.m, q.k), q.dims, q.x, q.y,
                                  q.radius, q.t)]
    /\ UNCHANGED <<outside, managerFlags, gazeSlot, mouseSlot, screen_analyzer,
                   gridTriple, continuousState, eyeTracking, pc, upd, frame,
                   tracker_pc, mouse_pc, next_gen, ret>>

NextQuery == find_call \/ find_again \/ find_scaled

SpecQuery == InitQuery /\ [][NextQuery]_vars

\* ------------------------------------------------------------------------
\* The threads of the manager
\* ------------------------------------------------------------------------

\* outcomes of a screen grab: 0 (it failed) or one of the images
Grabs == 0 .. Len(Images)

RecomputeBy(t, grabs) ==
    \/ \E c \in grabs : update_importance_grid_enter(t, c)
    \/ \E retry \in grabs, grab \in grabs :
          update_importance_grid_generate(t, retry, grab)
    \/ update_importance_grid_store_cells(t)
    \/ update_importance_grid_store_dims(t)
    \/ update_importance_grid_store_matrix(t)

Tracker ==
    \/ tracking_loop_test
    \/ \E ok \in BOOLEAN : tracking_loop_read(ok)
    \/ \E eye_position \in EyePositions, g \in GazePoints :
          tracking_loop_gaze(eye_position, g)
    \/ tracking_loop_publish_y

Mouse ==
    \/ \E m \in MousePoints : track_mouse_store_x(m[1], m[2])
    \/ track_mouse_store_y

\* ------------------------------------------------------------------------
\* SpecFusion: focus resolution.  Both managers with their toggles, the gaze
\* and mouse threads, and grid computations made by the foreground thread;
\* no continuous updates are started.
\* ------------------------------------------------------------------------

InitFusion == Init

NextFusion ==
    \/ \E m \in MousePoints : get_coordinates_begin(m[1], m[2])
    \/ get_coordinates_find
    \/ get_coordinates_eye
    \/ get_coordinates_eye_y
    \/ \E enabled \in BOOLEAN, calibrated \in BOOLEAN :
          toggle_eye_tracking(enabled, calibrated)
    \/ \E enabled \in BOOLEAN : toggle_importance_map(enabled)
    \/ call_returns
    \/ stop_continuous_updates_begin
    \/ update_importance_grid
    \/ RecomputeBy(0, Grabs)
    \/ main_get_coordinates_begin
    \/ main_get_coordinates_mouse_y
    \/ main_get_coordinates_eye
    \/ main_get_coordinates_eye_y
    \/ main_get_coordinates_find
    \/ \E c \in Grabs, retry \in Grabs, grab \in Grabs :
          main_setup_importance_grid(c, retry, grab)
    \/ \E enabled \in BOOLEAN, c \in Grabs, retry \in Grabs, grab \in Grabs :
          main_toggle_importance_map(enabled, c, retry, grab)
    \/ Tracker
    \/ Mouse

SpecFusion == InitFusion /\ [][NextFusion]_vars

\* ------------------------------------------------------------------------
\* SpecCoordinates: get_coordinates of coordinate_manager.py for cursors on
\* and off the screen, on grids computed by the foreground thread from
\* every screen of Screens, the screen of 2 x 2 pixels included, whose
\* cells have no pixels under the 9 x 16 grid.
\* ------------------------------------------------------------------------

\* outcomes of a screen grab: 0 (it failed) or one of the screens
ScreenGrabs == 0 .. Len(Screens)

\* cursor positions: on the screen, left of and above it, beyond its last
\* cell
CoordinatePoints == {<<500, 500>>, <<-5, -5>>, <<1279, 719>>, <<5000, 5000>>}

InitCoordinates ==
    /\ impl = "coordinate_manager"
    /\ tracker = NoTracker
    /\ magnifier = NoMagnifier
    /\ \E eye \in BOOLEAN, grid \in BOOLEAN : ManagerInit(eye, grid)
    /\ screen_analyzer = ScreenAnalyzer(GridX, GridY)
    /\ mouse_pc = [at |-> "none"]
    /\ q = QIdle

NextCoordinates ==
    \/ \E m \in CoordinatePoints : get_coordinates_begin(m[1], m[2])
    \/ get_coordinates_find
    \/ get_coordinates_eye
    \/ get_coordinates_eye_y
    \/ \E enabled \in BOOLEAN : toggle_eye_tracking(enabled, TRUE)
    \/ \E enabled \in BOOLEAN : toggle_importance_map(enabled)
    \/ call_returns
    \/ stop_continuous_updates_begin
    \/ update_importance_grid
    \/ RecomputeBy(0, ScreenGrabs)
    \/ Tracker

SpecCoordinates == InitCoordinates /\ [][NextCoordinates]_vars

\* ------------------------------------------------------------------------
\* SpecContinuous: the importance grid of coordinate_manager.py under
\* continuous updates.  Eye tracking stays off, the cursor rests at
\* (500, 500), every screen capture succeeds and continuous updates are
\* started with the default interval.
\* ------------------------------------------------------------------------

InitContinuous ==
    /\ impl = "coordinate_manager"
    /\ tracker = NoTracker
    /\ magnifier = NoMagnifier
    /\ \E grid \in BOOLEAN : ManagerInit(FALSE, grid)
    /\ screen_analyzer \in {NoAnalyzer, ScreenAnalyzer(GridX, GridY)}
    /\ mouse_pc = [at |-> "none"]
    /\ q = QIdle

NextContinuous ==
    \/ get_coordinates_begin(500, 500)
    \/ get_coordinates_find
    \/ get_coordinates_eye
    \/ \E enabled \in BOOLEAN : toggle_importance_map(enabled)
    \/ call_returns
    \/ update_importance_grid
    \/ start_continuous_updates(DefaultInterval)
    \/ start_continuous_updates_thread
    \/ stop_continuous_updates
    \/ stop_continuous_updates_begin
    \/ stop_continuous_updates_check
    \/ stop_continuous_updates_join
    \/ \E t \in Threads : RecomputeBy(t, ImageIds)
    \/ \E w \in Workers :
          \/ continuous_update_loop_test(w)
          \/ continuous_update_loop_flag(w)
          \/ continuous_update_loop_wait(w)
          \/ continuous_update_loop_backoff(w)

SpecContinuous == InitContinuous /\ [][NextContinuous]_vars

\* ------------------------------------------------------------------------
\* SpecInterval: continuous updates started, stopped and re-timed by the
\* owner of a coordinate_manager.py manager, with the threads they create.
\* ------------------------------------------------------------------------

\* intervals handed to start_continuous_updates and
\* set_continuous_update_interval, in tenths of a second
Intervals == {5, 20, DefaultInterval}

NextInterval ==
    \/ \E i \in Intervals : start_continuous_updates(i)
    \/ start_continuous_updates_thread
    \/ \E i \in Intervals : set_continuous_update_interval(i)
    \/ stop_continuous_updates
    \/ stop_continuous_updates_begin
    \/ stop_continuous_updates_check
    \/ stop_continuous_updates_join
    \/ \E w \in Workers :
          \/ RecomputeBy(w, ImageIds)
          \/ continuous_update_loop_test(w)
          \/ continuous_update_loop_flag(w)
          \/ continuous_update_loop_wait(w)
          \/ continuous_update_loop_backoff(w)

SpecInterval == InitContinuous /\ [][NextInterval]_vars

\* ------------------------------------------------------------------------
\* SpecCalibration: one EyeTracker used directly: calibrated by the user
\* (space captures the position shown, escape or q aborts), and asked for
\* gaze points.  Every call leaves its record in ret.
\* ------------------------------------------------------------------------

InitCalibration ==
    /\ impl = "coordinate_manager"
    /\ ManagerInit(FALSE, FALSE)
    /\ screen_analyzer = NoAnalyzer
    /\ mouse_pc = [at |-> "none"]
    /\ q = QIdle
    /\ tracker \in {EyeTracker(points) : points \in ScreenPointMaps}
    /\ magnifier = NoMagnifier

\* calibrate() is called (not from inside its own main loop)
calibrate_call ==
    /\ tracker.root # "open"
    /\ tracker' = calibrate(tracker)
    /\ ret' = [op |-> "calibrate"]
    /\ UNCHANGED <<outside, managerFlags, gazeSlot, mouseSlot, screen_analyzer,
                   gridTriple, continuousState, eye_tracker,
                   calibration_file, pc, upd, frame, tracker_pc, mouse_pc,
                   next_gen, q>>

\* <space> in the calibration window
capture_current_position_call(detections) ==
    /\ tracker.root = "open"
    /\ tracker' = capture_current_position(tracker, detections)
    /\ ret' = [op |-> "capture_current_position",
               position |-> tracker.current_position,
               samples |-> Len(detections)]
    /\ UNCHANGED <<outside, managerFlags, gazeSlot, mouseSlot, screen_analyzer,
                   gridTriple, continuousState, eye_tracker,
                   calibration_file, pc, upd, frame, tracker_pc, mouse_pc,
                   next_gen, q>>

\* <Escape> or q in the calibration window
end_calibration_call ==
    /\ tracker.root = "open"
    /\ tracker' = end_calibration(tracker)
    /\ ret' = [op |-> "end_calibration",
               position |-> tracker.current_position]
    /\ UNCHANGED <<outside, managerFlags, gazeSlot, mouseSlot, screen_analyzer,
                   gridTriple, continuousState, eye_tracker,
                   calibration_file, pc, upd, frame, tracker_pc, mouse_pc,
                   next_gen, q>>

\* map_eye_position_to_screen(eye_position) is called
map_eye_position_to_screen_call(eye_position) ==
    /\ ret' = [op |-> "map_eye_position_to_screen",
               calibrated |-> tracker.is_calibrated,
               eye_position |-> eye_position,
               value |-> map_eye_position_to_screen(tracker, eye_position)]
    /\ UNCHANGED <<outside, managerFlags, gazeSlot, mouseSlot, screen_analyzer,
                   gridTriple, continuousState, eyeTracking, pc, upd, frame,
                   tracker_pc, mouse_pc, next_gen, q>>

\* get_gaze_point() is called without a frame, outside a calibration
get_gaze_point_call(ok, eye_position) ==
    /\ tracker.root # "open"
    /\ LET r == get_gaze_point(tracker, FALSE, ok, eye_position)
       IN  /\ tracker' = r.tracker
           /\ ret' = [op |-> "get_gaze_point",
                      calibrated |-> tracker.is_calibrated,
                      eye_position |-> eye_position,
                      value |-> r.value]
    /\ UNCHANGED <<outside, managerFlags, gazeSlot, mouseSlot, screen_analyzer,
                   gridTriple, continuousState, eye_tracker,
                   calibration_file, pc, upd, frame, tracker_pc, mouse_pc,
                   next_gen, q>>

NextCalibration ==
    \/ calibrate_call
    \/ \E detections \in Detections :
          capture_current_position_call(detections)
    \/ end_calibration_call
    \/ \E eye_position \in EyePositions :
          map_eye_position_to_screen_call(eye_position)
    \/ \E ok \in BOOLEAN, eye_position \in EyePositions :
          get_gaze_point_call(ok, eye_position)

SpecCalibration == InitCalibration /\ [][NextCalibration]_vars

\* ------------------------------------------------------------------------
\* SpecTracking: the eye tracking of a coordinate_manager.py manager:
\* toggled by the user, started from calibration files, with the tracking
\* thread.
\* ------------------------------------------------------------------------

InitTracking ==
    /\ impl = "coordinate_manager"
    /\ tracker = NoTracker
    /\ magnifier = NoMagnifier
    /\ \E eye \in BOOLEAN : ManagerInit(eye, FALSE)
    /\ screen_analyzer = NoAnalyzer
    /\ mouse_pc = [at |-> "none"]
    /\ q = QIdle

NextTracking ==
    \/ \E enabled \in BOOLEAN, calibrated \in BOOLEAN :
          toggle_eye_tracking(enabled, calibrated)
    \/ \E file \in CalibrationFiles : load_calibration_and_track(file)
    \/ Tracker

SpecTracking == InitTracking /\ [][NextTracking]_vars

\* ------------------------------------------------------------------------
\* SpecAnalyzer: a ScreenAnalyzer (ocr/main.py) used alone: its grid is
\* reconfigured, the screen captured, the importance grid generated.
\* ------------------------------------------------------------------------

\* grid_x and grid_y are taken from 0 .. MaxGrid
MaxGrid == 3

GridSizes == 0 .. MaxGrid

\* the importance arguments the analyzer is constructed with
WeightSets ==
    {DefaultWeights,
     [DefaultWeights EXCEPT !.base_size = 8, !.max_size_factor = 15,
                            !.confidence_threshold = 85,
                            !.title_importance = 0,
                            !.density_importance = 0]}

InitAnalyzer ==
    /\ impl = "coordinate_manager"
    /\ tracker = NoTracker
    /\ magnifier = NoMagnifier
    /\ ManagerInit(FALSE, FALSE)
    /\ mouse_pc = [at |-> "none"]
    /\ q = QIdle
    /\ screen_analyzer \in {ScreenAnalyzerWith(gx, gy, weights) :
                              gx \in GridSizes, gy \in GridSizes,
                              weights \in WeightSets}

\* screen_analyzer.grid_x = grid_x; screen_analyzer.grid_y = grid_y
set_grid(gx, gy) ==
    /\ screen_analyzer' = [screen_analyzer EXCEPT !.grid_x = gx, !.grid_y = gy]
    /\ ret' = [op |-> "set_grid"]
    /\ UNCHANGED <<outside, managerFlags, gazeSlot, mouseSlot, gridTriple,
                   continuousState, eyeTracking, pc, upd, frame, tracker_pc,
                   mouse_pc, next_gen, q>>

\* capture_screen() is called and grabs `c'
capture_screen_call(c) ==
    /\ screen_analyzer' = capture_screen(screen_analyzer, c)
    /\ ret' = [op |-> "capture_screen", ok |-> c # 0]
    /\ UNCHANGED <<outside, managerFlags, gazeSlot, mouseSlot, gridTriple,
                   continuousState, eyeTracking, pc, upd, frame, tracker_pc,
                   mouse_pc, next_gen, q>>

\* generate_importance_grid() is called; n: the length of the cell list
\* returned, stored: the importance its cells hold
generate_importance_grid_call(retry, grab) ==
    /\ LET g == generate_importance_grid(screen_analyzer, retry, grab)
       IN  /\ screen_analyzer' = g.an
           /\ ret' = IF "raised" \in DOMAIN g
                     THEN [op |-> "generate_importance_grid", raised |-> TRUE]
                     ELSE [op |-> "generate_importance_grid",
                           raised |-> FALSE, cells |-> g.cells,
                           dims |-> g.dims, matrix |-> g.matrix,
                           n |-> IF g.cells = "empty" THEN 0
                                 ELSE g.an.grid_cells.n,
                           stored |-> IF g.cells = "empty" THEN {}
                                      ELSE stored_importance(
                                               g.an,
                                               Screens[g.an.screenshot])]
    /\ UNCHANGED <<outside, managerFlags, gazeSlot, mouseSlot, gridTriple,
                   continuousState, eyeTracking, pc, upd, frame, tracker_pc,
                   mouse_pc, next_gen, q>>

NextAnalyzer ==
    \/ \E gx \in GridSizes, gy \in GridSizes : set_grid(gx, gy)
    \/ \E c \in 0 .. Len(Screens) : capture_screen_call(c)
    \/ \E retry \in 0 .. Len(Screens), grab \in 0 .. Len(Screens) :
          generate_importance_grid_call(retry, grab)

SpecAnalyzer == InitAnalyzer /\ [][NextAnalyzer]_vars

\* ------------------------------------------------------------------------
\* SpecElements: detect_ui_elements called on cells with contours of the
\* caller's choice, by analyzers with the default multipliers and with
\* others
\* ------------------------------------------------------------------------

\* bounding rectangles of contours: of button shape with text, of button
\* and input-field shape without text, of input-field shape only, squares
\* of area 8100, 900 and 3600, and one narrower than 10 pixels
ContourInputs ==
    {Contour(120, 40, TRUE), Contour(160, 40, FALSE), Contour(300, 40, FALSE),
     Contour(90, 90, FALSE), Contour(30, 30, FALSE), Contour(60, 60, TRUE),
     Contour(8, 40, TRUE)}

\* the contours of a cell: at most MaxContours of them
MaxContours == 2

ContourLists ==
    UNION {[1 .. n -> ContourInputs] : n \in 0 .. MaxContours}

\* detect_ui_elements(cell_image) is called on a cell with these contours
detect_ui_elements_call(contours) ==
    /\ ret' = [op |-> "detect_ui_elements", contours |-> contours,
               value |-> detect_ui_elements(screen_analyzer, contours)]
    /\ UNCHANGED <<outside, managerFlags, gazeSlot, mouseSlot, screen_analyzer,
                   gridTriple, continuousState, eyeTracking, pc, upd, frame,
                   tracker_pc, mouse_pc, next_gen, q>>

\* the multipliers of the element types the analyzer is constructed with
ElementWeightSets ==
    {DefaultWeights,
     [DefaultWeights EXCEPT !.button_importance = 20,
                            !.input_field_importance = 5,
                            !.checkbox_importance = 35]}

InitElements ==
    /\ impl = "coordinate_manager"
    /\ tracker = NoTracker
    /\ magnifier = NoMagnifier
    /\ ManagerInit(FALSE, FALSE)
    /\ mouse_pc = [at |-> "none"]
    /\ q = QIdle
    /\ screen_analyzer \in {ScreenAnalyzerWith(GridX, GridY, weights) :
                              weights \in ElementWeightSets}

NextElements == \E contours \in ContourLists : detect_ui_elements_call(contours)

SpecElements == InitElements /\ [][NextElements]_vars

\* ------------------------------------------------------------------------
\* SpecMagnifier: a ScreenMagnifier whose timer fires, with its menu
\* ------------------------------------------------------------------------

\* window sizes: the default of __init__, the size main.py passes, the whole
\* screen, one pixel
WindowSizes ==
    {<<600, 400>>, <<1000, 562>>, <<PrimaryScreen.w, PrimaryScreen.h>>,
     <<1, 1>>}

\* coordinates on the primary screen: its corners, its centre, and the
\* places next to where a window of WindowSizes meets the far edge
ScreenXs ==
    {0, 1, PrimaryScreen.w \div 2, PrimaryScreen.w - 1}
      \cup UNION {{PrimaryScreen.w - s[1], PrimaryScreen.w - s[1] + 1} :
                     s \in WindowSizes \ {<<PrimaryScreen.w, PrimaryScreen.h>>}}

ScreenYs ==
    {0, 1, PrimaryScreen.h \div 2, PrimaryScreen.h - 1}
      \cup UNION {{PrimaryScreen.h - s[2], PrimaryScreen.h - s[2] + 1} :
                     s \in WindowSizes \ {<<PrimaryScreen.w, PrimaryScreen.h>>}}

\* positions of the cursor
CursorPoints == {<<0, 0>>, <<PrimaryScreen.w - 1, PrimaryScreen.h - 1>>}

InitMagnifier ==
    /\ impl = "main"
    /\ tracker = NoTracker
    /\ ManagerInit(FALSE, FALSE)
    /\ screen_analyzer = NoAnalyzer
    /\ mouse_pc = [at |-> "none"]
    /\ q = QIdle
    /\ magnifier \in {ScreenMagnifier(s[1], s[2], follow, FALSE) :
                        s \in WindowSizes, follow \in BOOLEAN}

\* the timer of line 74 fires
update_magnifier_call(mouse, content) ==
    /\ magnifier' = update_magnifier(magnifier, mouse, content)
    /\ ret' = [op |-> "update_magnifier", mouse |-> mouse,
               content |-> content]
    /\ UNCHANGED <<impl, managerFlags, gazeSlot, mouseSlot, screen_analyzer,
                   gridTriple, continuousState, eyeTracking, pc, upd, frame,
                   tracker_pc, mouse_pc, next_gen, q>>

\* "Follow Mouse" of the context menu
toggle_follow_mouse_call(checked) ==
    /\ magnifier' = toggle_follow_mouse(magnifier, checked)
    /\ ret' = [op |-> "toggle_follow_mouse"]
    /\ UNCHANGED <<impl, managerFlags, gazeSlot, mouseSlot, screen_analyzer,
                   gridTriple, continuousState, eyeTracking, pc, upd, frame,
                   tracker_pc, mouse_pc, next_gen, q>>

\* "Fixed Position" of the context menu
toggle_fixed_position_call(checked) ==
    /\ magnifier' = toggle_fixed_position(magnifier, checked)
    /\ ret' = [op |-> "toggle_fixed_position"]
    /\ UNCHANGED <<impl, managerFlags, gazeSlot, mouseSlot, screen_analyzer,
                   gridTriple, continuousState, eyeTracking, pc, upd, frame,
                   tracker_pc, mouse_pc, next_gen, q>>

NextMagnifier ==
    \/ \E mouse \in CursorPoints, x \in ScreenXs, y \in ScreenYs :
          update_magnifier_call(mouse, <<x, y>>)
    \/ \E checked \in BOOLEAN : toggle_follow_mouse_call(checked)
    \/ \E checked \in BOOLEAN : toggle_fixed_position_call(checked)

SpecMagnifier == InitMagnifier /\ [][NextMagnifier]_vars

\* ------------------------------------------------------------------------
\* SpecWorkers: the two background workers of coordinate_manager.py, the
\* continuous-update thread and the gaze tracking thread, started and stopped
\* by the foreground thread.  A thread that can take a step takes one
\* (weak fairness per thread); the foreground thread may stay idle.
\* ------------------------------------------------------------------------

\* Line 483 inside get_gaze_point(frame), called at line 595 of the loop:
\* gaze.refresh(frame) raises.  tracking_loop has no try: the exception ends
\* the thread, _tracking_active unchanged.
tracking_loop_raise ==
    /\ tracker_pc.at = "gaze"
    /\ tracker_pc' = [at |-> "raised", active |-> tracker_pc.active]
    /\ UNCHANGED <<outside, managerFlags, gazeSlot, mouseSlot, screen_analyzer,
                   gridTriple, continuousState, eyeTracking, pc, upd, frame,
                   mouse_pc, next_gen, ret, q>>

\* a step of the gaze tracking thread
TrackerStep ==
    \/ tracking_loop_test
    \/ \E ok \in BOOLEAN : tracking_loop_read(ok)
    \/ \E g \in GazePoints :
          tracking_loop_gaze(<<DefaultSample.left_pupil,
                               DefaultSample.right_pupil>>, g)
    \/ tracking_loop_publish_y
    \/ tracking_loop_raise

\* a step of continuous-update thread w
WorkerStep(w) ==
    \/ RecomputeBy(w, ImageIds)
    \/ continuous_update_loop_test(w)
    \/ continuous_update_loop_flag(w)
    \/ continuous_update_loop_wait(w)
    \/ continuous_update_loop_backoff(w)

NextWorkers ==
    \/ start_continuous_updates(DefaultInterval)
    \/ start_continuous_updates_thread
    \/ stop_continuous_updates
    \/ stop_continuous_updates_begin
    \/ stop_continuous_updates_check
    \/ stop_continuous_updates_join
    \/ \E enabled \in BOOLEAN : toggle_eye_tracking(enabled, TRUE)
    \/ \E w \in Workers : WorkerStep(w)
    \/ TrackerStep

SpecWorkers ==
    /\ InitContinuous
    /\ [][NextWorkers]_vars
    /\ \A w \in Workers : WF_vars(WorkerStep(w))
    /\ WF_vars(TrackerStep)

\* ------------------------------------------------------------------------
\* SpecCleanup: cleanup() of a coordinate_manager.py manager built with any
\* flags and no analyzer, called before, during and after eye tracking and
\* continuous updates (whose recomputes fail for want of an analyzer)
\* ------------------------------------------------------------------------

InitCleanup ==
    /\ impl = "coordinate_manager"
    /\ tracker = NoTracker
    /\ magnifier = NoMagnifier
    /\ \E eye \in BOOLEAN, grid \in BOOLEAN : ManagerInit(eye, grid)
    /\ screen_analyzer = NoAnalyzer
    /\ mouse_pc = [at |-> "none"]
    /\ q = QIdle

NextCleanup ==
    \/ cleanup
    \/ start_continuous_updates(DefaultInterval)
    \/ start_continuous_updates_thread
    \/ stop_continuous_updates
    \/ stop_continuous_updates_begin
    \/ stop_continuous_updates_check
    \/ stop_continuous_updates_join
    \/ \E enabled \in BOOLEAN : toggle_eye_tracking(enabled, TRUE)
    \/ \E w \in Workers :
          \/ continuous_update_loop_test(w)
          \/ continuous_update_loop_flag(w)
          \/ \E c \in ImageIds : update_importance_grid_enter(w, c)
          \/ continuous_update_loop_wait(w)
          \/ continuous_update_loop_backoff(w)
    \/ Tracker

SpecCleanup == InitCleanup /\ [][NextCleanup]_vars

\* ------------------------------------------------------------------------
\* Properties of focus resolution (SpecFusion)
\* ------------------------------------------------------------------------

\* the coordinate c, a plain number or a centroid, has the numeric value n
HasValue(c, n) ==
    IF "kind" \notin DOMAIN c THEN FALSE
    ELSE IF c.kind = "px" THEN c.v = n
    ELSE /\ (2 * c.cell) % c.w = 0
         /\ c.s * ((2 * c.cell) \div c.w) = 2 * n - c.cell * (2 * c.start + 1)

\* the returned pair `value' is numerically the pair `point' of plain numbers
SamePoint(value, point) ==
    /\ value # TypeError
    /\ HasValue(value[1], point[1].v)
    /\ HasValue(value[2], point[2].v)

\* get_coordinates of coordinate_manager.py has returned
Returned == impl = "coordinate_manager" /\ ret.op = "get_coordinates"

\* get_coordinates of main.py has returned
MainReturned == impl = "main" /\ ret.op = "get_coordinates"

C2_MouseWhenBothOff ==
    (ret.op = "get_coordinates" /\ ~ret.eye /\ ~ret.grid)
        => (~ret.raised /\ ret.value = ret.mouse)

\* C2 case: a matrix exists, both flags are off, the mouse pair is returned
C2_Witness ==
    /\ Returned /\ ~ret.eye /\ ~ret.grid /\ ret.had_matrix
    /\ ret.mouse # <<Px(0), Px(0)>>
    /\ ret.value = ret.mouse

C4_NoMatrixFallsBackToMouse ==
    (Returned /\ ret.grid /\ ~ret.eye /\ ~ret.had_matrix)
        => (~ret.raised /\ ret.value = ret.mouse)

\* C4 case: such a call has returned the mouse pair
C4_Witness ==
    /\ Returned /\ ret.grid /\ ~ret.eye /\ ~ret.had_matrix
    /\ importance_matrix = NoMatrix
    /\ ret.mouse # <<Px(0), Px(0)>>
    /\ ~ret.raised
    /\ ret.value = ret.mouse

\* ------------------------------------------------------------------------
\* Properties of the importance query (SpecQuery)
\* ------------------------------------------------------------------------

\* the query of q has been answered
Answered == q.pc \in {"returned", "again", "scaled"}

\* the clipped search sub-grid [start, end) of the query of q, per axis
StartX == SearchStart(q.x.v, q.dims[1], q.radius, q.m.cols)

EndX == SearchEnd(q.x.v, q.dims[1], q.radius, q.m.cols)

StartY == SearchStart(q.y.v, q.dims[2], q.radius, q.m.rows)

EndY == SearchEnd(q.y.v, q.dims[2], q.radius, q.m.rows)

\* the rows and columns of the search area the function extracts
AreaRows == SearchRows(q.m, q.dims, q.y.v, q.radius)

AreaCols == SearchCols(q.m, q.dims, q.x.v, q.radius)

AreaEmpty == AreaRows = {} \/ AreaCols = {}

\* the value v, normalized as lines 242-245 do for an area of maximum mx,
\* is at least the threshold t (tenths)
NormalizedAtLeast(v, mx, t) ==
    IF mx > One THEN v * ThresholdDen >= t * mx
    ELSE v * ThresholdDen >= t * One

\* some cell of the search area of matrix m passes the threshold of q
SomeCellPasses(m) ==
    /\ ~AreaEmpty
    /\ \E r \in AreaRows, c \in AreaCols :
          NormalizedAtLeast(MatAt(m, r, c), AreaMax(m, AreaRows, AreaCols),
                            q.t)

\* C5: if no cell of the search sub-grid has normalized importance at or
\* above the threshold, find_important_area_near returns exactly (x, y), and
\* applied to its own result it returns (x, y) again.
C5_NoPassReturnsInput ==
    (Answered /\ ~SomeCellPasses(q.m))
        => /\ q.result = <<q.x, q.y>>
           /\ q.pc = "again" => q.result2 = <<q.x, q.y>>

\* C5 case: a search area with positive values none of which passes, and
\* the function applied twice
C5_Witness ==
    /\ q.pc = "again"
    /\ ~AreaEmpty
    /\ AreaMax(q.m, AreaRows, AreaCols) > 0
    /\ ~SomeCellPasses(q.m)
    /\ q.result2 = <<q.x, q.y>>

\* the coordinate c lies in [start * cell, end * cell]
WithinCells(c, cell, start, end) ==
    IF c.kind = "px"
    THEN start * cell <= c.v /\ c.v <= end * cell
    ELSE LET whole == c.s \div c.w
             rest == c.s % c.w
             below == c.start - start
             above == end - c.start
         IN  /\ \/ below + whole >= 0
                \/ below + whole = -1 /\ 2 * rest >= c.w
             /\ \/ whole < above - 1
                \/ whole = above - 1 /\ 2 * rest <= c.w

\* C6 as stated: whenever a cell passes the threshold, the returned point
\* lies in the bounding box [start*cell, end*cell] of the clipped search
\* sub-grid, on both axes.
C6_ResultInBoundingBox ==
    (Answered /\ SomeCellPasses(q.m))
        => /\ q.result[1].kind = "centroid"
           /\ q.result[2].kind = "centroid"
           /\ WithinCells(q.result[1], q.dims[1], StartX, EndX)
           /\ WithinCells(q.result[2], q.dims[2], StartY, EndY)

\* C7 as stated: k * M and M pass the same cells through the threshold.
C7_ScaleInvariant == q.pc = "scaled" => q.mask_k = q.mask

\* C7: k * M and M pass the same cells through the threshold when the
\* maximum of the search area is above 1.0 in both of them.
C7_ScaleInvariantAboveOne ==
    (/\ q.pc = "scaled"
     /\ ~AreaEmpty
     /\ AreaMax(q.m, AreaRows, AreaCols) > One
     /\ AreaMax(Scaled(q.m, q.k), AreaRows, AreaCols) > One)
        => q.mask_k = q.mask

\* C7 case: both maxima above 1.0, some cells pass and some do not
C7_Witness ==
    /\ q.pc = "scaled"
    /\ ~AreaEmpty
    /\ AreaMax(q.m, AreaRows, AreaCols) > One
    /\ AreaMax(Scaled(q.m, q.k), AreaRows, AreaCols) > One
    /\ q.mask # {}
    /\ q.mask # AreaRows \X AreaCols
    /\ \E rc \in AreaRows \X AreaCols :
          /\ rc \notin q.mask
          /\ MatAt(q.m, rc[1], rc[2]) > 0
    /\ q.mask_k = q.mask

\* ------------------------------------------------------------------------
\* Properties of the importance grid under continuous updates
\* (SpecContinuous)
\* ------------------------------------------------------------------------

\* thread t is executing update_importance_grid past its capture
InUpdate(t) ==
    pc[t] \in {"u_generate", "u_store_cells", "u_store_dims", "u_store_matrix"}

\* C8 as stated: a get_coordinates call that made the importance query used
\* a cell_dimensions value and an importance_matrix of the same recompute.
C8_ReaderUsesOneGeneration ==
    (Returned /\ ret.grid /\ ret.had_matrix /\ ~ret.raised)
        => ret.dims_gen = ret.matrix_gen

\* C9 as stated: at most one execution of update_importance_grid is in
\* progress at any time.
C9_OneRecomputeAtATime ==
    Cardinality({t \in Threads : InUpdate(t)}) <= 1

\* toggle_importance_map(False) has returned and no later call has begun
ToggledOff == pc[0] = "idle" /\ ret.op = "toggle_importance_map_off"

\* C10 as stated, its safety part: once toggle_importance_map(False) has
\* returned, continuous_update is false and no worker starts a recompute.
C10_ToggleOffStopsRecomputes ==
    [][ToggledOff =>
          /\ ~continuous_update
          /\ \A w \in Workers : InUpdate(w)' => InUpdate(w)]_vars

\* ------------------------------------------------------------------------
\* Properties of the toggles and of the update interval
\* ------------------------------------------------------------------------

\* C11: after toggle_importance_map(True) has returned there is an importance
\* matrix, whatever the state the call was made in (a manager constructed
\* with importance_grid_enabled=True included).
C11_ToggleOnLeavesMatrix ==
    (ret.op = "toggle_importance_map_on" /\ ~ret.raised)
        => importance_matrix # NoMatrix

\* C12: whatever positive intervals start_continuous_updates and
\* set_continuous_update_interval are called with, the interval in use is at
\* least one second.
C12_IntervalAtLeastOneSecond == continuous_update_interval >= MinInterval

\* ------------------------------------------------------------------------
\* Properties of the eye tracker
\* ------------------------------------------------------------------------

\* C13: once toggle_eye_tracking(False) has completed the camera is released
\* and stays released; no iteration of the tracking loop opens it again.
C13_CameraStaysReleased ==
    (ret.op = "toggle_eye_tracking" /\ ~ret.enabled /\ tracker # NoTracker)
        => tracker.webcam = "none"

\* ------------------------------------------------------------------------
\* Properties of the calibration (SpecCalibration)
\* ------------------------------------------------------------------------

\* the position has a captured sample
Captured(name) == tracker.calibrated_points[name] # DefaultSample

\* C14: is_calibrated is true only when every position of
\* calibration_positions has a captured sample, whatever positions the
\* calibration_screen_points of the tracker has an entry for.
C14_CalibratedOnlyWhenComplete ==
    tracker.is_calibrated => \A name \in PositionSet : Captured(name)

\* a map request with at least one pupil detected has returned
MapAnswered ==
    /\ ret.op \in {"map_eye_position_to_screen", "get_gaze_point"}
    /\ ret.eye_position # <<NoPupil, NoPupil>>

\* C15: a map request made with a detected pupil while the tracker is not
\* calibrated fails with a not-calibrated error and yields no screen point.
C15_UncalibratedMapFails ==
    (MapAnswered /\ ~ret.calibrated)
        => ret.value = [raised |-> "NotCalibratedError"]

\* C16: once end_calibration has run the tracker is never calibrated again
\* and holds none of the samples captured before.
C16_AbortedIsTerminal ==
    tracker.aborted
        => /\ ~tracker.is_calibrated
           /\ \A name \in PositionSet : ~Captured(name)

\* C17: a capture that collects fewer than calibration_samples detections
\* changes nothing, so the same position is shown again, and the position
\* index moves only in a capture that collected calibration_samples.
C17_FailedCaptureIsRetried ==
    [][/\ (ret'.op = "capture_current_position"
              /\ ret'.samples < calibration_samples)
            => tracker' = tracker
       /\ tracker'.current_position # tracker.current_position
            => /\ ret'.op = "capture_current_position"
               /\ ret'.samples = calibration_samples]_vars

\* ------------------------------------------------------------------------
\* Properties of the calibration files (SpecTracking)
\* ------------------------------------------------------------------------

\* load_calibration_and_track has returned
Loaded == ret.op = "load_calibration_and_track"

\* the file is missing or its record lacks a required field
Rejected(file) ==
    ~file.exists \/ ~(RequiredKeys \subseteq DOMAIN file.data)

\* C18: loading the record run_calibration wrote succeeds and leaves a
\* calibrated tracker, without a new calibration, whose calibrated_points and
\* calibration_screen_points are the saved ones.
C18_SavedRecordLoads ==
    (Loaded /\ ret.file = SavedFile)
        => /\ ret.ok
           /\ eye_tracker # NoTracker
           /\ tracker.is_calibrated
           /\ tracker.calibrated_points = SavedFile.data.calibrated_points
           /\ tracker.calibration_screen_points
                  = SavedFile.data.calibration_screen_points

\* C19: a load that is rejected reports failure and leaves
\* eye_tracking_enabled, eye_tracker, calibration_file and the tracking
\* worker as they were before the call.
C19_RejectedLoadKeepsState ==
    (Loaded /\ Rejected(ret.file))
        => /\ ~ret.ok
           /\ eye_tracking_enabled = ret.before.enabled
           /\ eye_tracker = ret.before.eye_tracker
           /\ calibration_file = ret.before.file
           /\ tracker_pc.active = ret.before.active

\* ------------------------------------------------------------------------
\* Properties of the importance grid (SpecAnalyzer)
\* ------------------------------------------------------------------------

\* generate_importance_grid has returned a triple
GridReturned == ret.op = "generate_importance_grid" /\ ~ret.raised

\* C20: every matrix generate_importance_grid returns, scored or default, has
\* grid_y rows and grid_x columns as the analyzer is configured, no entry
\* outside them, and no entry below 0 (the multipliers being non-negative).
C20_MatrixShapeAndSign ==
    GridReturned
        => /\ ret.matrix.rows = screen_analyzer.grid_y
           /\ ret.matrix.cols = screen_analyzer.grid_x
           /\ ret.matrix.base >= 0
           /\ \A h \in ret.matrix.hot :
                 /\ h[1] \in 0 .. (screen_analyzer.grid_y - 1)
                 /\ h[2] \in 0 .. (screen_analyzer.grid_x - 1)
                 /\ h[3] >= 0

\* the default matrix is returned after a failed capture, for a grid that is
\* not square
C20_Witness ==
    /\ GridReturned
    /\ ret.cells = "empty"
    /\ screen_analyzer.screenshot = 0
    /\ ret.matrix.rows > 0
    /\ ret.matrix.cols > 0
    /\ ret.matrix.rows # ret.matrix.cols

\* the screen with no place whose analysis raises
Readable(img) ==
    [img EXCEPT !.spots = {<<sp[1], sp[2], [sp[3] EXCEPT !.raises = FALSE]>> :
                              sp \in img.spots}]

\* the cells of the analyzer's grid that hold a place whose analysis raises
FailingCells(an, img) ==
    LET d == create_grid_dimensions(img, an.grid_x, an.grid_y)
    IN  {PlaceCell(d, sp) : sp \in {e \in img.spots : e[3].raises}}

\* the grid was generated from a screenshot (grid_x, grid_y not 0)
GridScored ==
    /\ ret.op = "generate_importance_grid"
    /\ screen_analyzer.screenshot # 0
    /\ screen_analyzer.grid_x > 0
    /\ screen_analyzer.grid_y > 0

\* C21: when the analysis of a cell raises, generate_importance_grid still
\* returns the normal triple (a full cell list, not the fallback); the matrix
\* entry and the stored importance of that cell are 0, and every other cell
\* has the entry it has on the same screen with no analysis raising.
C21_CellFailureIsContained ==
    GridScored
        => LET an == screen_analyzer
               img == Screens[an.screenshot]
               good == score_matrix(an, Readable(img))
           IN  /\ ~ret.raised
               /\ ret.cells = "cells"
               /\ ret.n = an.grid_x * an.grid_y
               /\ \A s \in ret.stored :
                     IF <<s[1], s[2]>> \in FailingCells(an, img)
                     THEN s[3] = 0 /\ MatAt(ret.matrix, s[1], s[2]) = 0
                     ELSE MatAt(ret.matrix, s[1], s[2])
                            = MatAt(good, s[1], s[2])

\* a grid was returned in which a cell's analysis raised although the cell
\* holds content that scores, and another cell scores
C21_Witness ==
    /\ GridScored
    /\ LET an == screen_analyzer
           img == Screens[an.screenshot]
           good == score_matrix(an, Readable(img))
       IN  /\ \E s \in ret.stored :
                 /\ <<s[1], s[2]>> \in FailingCells(an, img)
                 /\ MatAt(good, s[1], s[2]) > 0
           /\ \E s \in ret.stored :
                 /\ <<s[1], s[2]>> \notin FailingCells(an, img)
                 /\ s[3] > 0

\* C22: in every triple generate_importance_grid returns, the fallback
\* included, the cell list has one cell per matrix entry (grid_x * grid_y
\* cells) and every cell stores the importance the matrix has at its row
\* and column.
C22_CellsMatchMatrix ==
    GridReturned
        => /\ ret.n = ret.matrix.rows * ret.matrix.cols
           /\ Cardinality(ret.stored) = ret.n
           /\ \A s \in ret.stored : MatAt(ret.matrix, s[1], s[2]) = s[3]

\* ------------------------------------------------------------------------
\* Properties of the magnifier window (SpecMagnifier)
\* ------------------------------------------------------------------------

\* C23: for a focus coordinate on the screen and a window not larger than
\* the screen, the window position update_magnifier computes keeps the whole
\* window on the screen: 0 <= window_x, window_x + window_width <=
\* screen_width, 0 <= window_y, window_y + window_height <= screen_height.
C23_WindowStaysOnScreen ==
    ret.op = "update_magnifier"
        => /\ 0 <= magnifier.pos[1]
           /\ magnifier.pos[1] + magnifier.window_width <= PrimaryScreen.w
           /\ 0 <= magnifier.pos[2]
           /\ magnifier.pos[2] + magnifier.window_height <= PrimaryScreen.h

\* the window followed the focus and was shifted back on both axes, its far
\* corner then in the last pixel of the screen
C23_Witness ==
    /\ ret.op = "update_magnifier"
    /\ ~magnifier.fixed_position
    /\ ~magnifier.follow_mouse
    /\ ret.content[1] + magnifier.window_width > PrimaryScreen.w
    /\ ret.content[2] + magnifier.window_height > PrimaryScreen.h
    /\ magnifier.pos[1] > 0
    /\ magnifier.pos[2] > 0

\* ------------------------------------------------------------------------
\* Properties of the background workers (SpecWorkers)
\* ------------------------------------------------------------------------

\* C24: an exception raised inside an iteration of a background worker does
\* not end the worker: the continuous-update thread in its except clause and
\* the gaze tracking thread whose iteration raised while tracking is active
\* both come to test their loop condition again.
C24_WorkersSurviveExceptions ==
    /\ \A w \in Workers : (pc[w] = "w_backoff") ~> (pc[w] = "w_loop")
    /\ (tracker_pc.at = "raised" /\ tracker_pc.active)
          ~> (tracker_pc.at = "loop")

\* C25: get_coordinates never raises: for every cursor position, negative
\* and beyond the last cell included, and every state of the manager, a
\* grid whose cells have a dimension of 0 included, it returns a pair.
C25_GetCoordinatesNeverRaises == Returned => ~ret.raised

\* get_coordinates has returned a pair for a cursor off the screen while the
\* grid was in use
C25_OffScreenReturns ==
    /\ Returned
    /\ ~ret.raised
    /\ ret.grid /\ ret.had_matrix
    /\ ret.mouse[1].v < 0

\* the cells of an axis of n cells whose index differs from the index of
\* the query cell by at most floor(radius / cell)
CellsWithin(x, cell, radius, n) ==
    {i \in 0 .. (n - 1) :
        /\ i - CellIndex(x, cell) <= radius \div cell
        /\ CellIndex(x, cell) - i <= radius \div cell}

\* C26: the search sub-grid of find_important_area_near is exactly the
\* cells of the grid whose column differs from the column of the query cell
\* by at most floor(radius / cell_width) and whose row differs from its row
\* by at most floor(radius / cell_height), for query points left of or
\* above the grid too.
C26_SearchAreaIsRadiusBox ==
    Answered =>
        /\ AreaCols = CellsWithin(q.x.v, q.dims[1], q.radius, q.m.cols)
        /\ AreaRows = CellsWithin(q.y.v, q.dims[2], q.radius, q.m.rows)

\* the type the classification by shape gives: every rectangle that is not
\* a button with text is tested for the input-field shape
ClassifiedType(c) ==
    LET area == c.w * c.h
    IN  IF 3 * c.h < 2 * c.w /\ c.w < 5 * c.h /\ area > 500 /\ c.text
        THEN "button"
        ELSE IF 3 * c.h < c.w /\ c.w < 10 * c.h /\ area > 1000
        THEN "input_field"
        ELSE IF 4 * c.h < 5 * c.w /\ 5 * c.w < 6 * c.h /\ checkbox_band(area)
        THEN "checkbox"
        ELSE "none"

\* the sum of the multipliers of the classified rectangles of at least
\* 10 x 10 pixels
RECURSIVE ClassifiedScore(_, _)
ClassifiedScore(an, contours) ==
    IF contours = <<>> THEN 0
    ELSE LET c == Head(contours)
         IN  (IF c.w < 10 \/ c.h < 10 THEN 0
              ELSE ElementImportance(an, ClassifiedType(c)) * (One \div 10))
               + ClassifiedScore(an, Tail(contours))

\* some area of a rectangle of at least 10 x 10 pixels on the screen lies
\* in the checkbox band
BandInhabited == \E area \in 100 .. (ScreenW * ScreenH) : checkbox_band(area)

\* C27: the UI score of detect_ui_elements is the sum of the multipliers of
\* the classification: button for aspect in (1.5, 5), area > 500 and text
\* inside; input field for every other rectangle with aspect in (3, 10) and
\* area > 1000, one of aspect in (3, 5) without text included; checkbox for
\* aspect in (0.8, 1.2) and an area in the checkbox band, a band that
\* holds at least one area.
C27_UIScoreIsClassification ==
    ret.op = "detect_ui_elements" =>
        /\ ret.value = ClassifiedScore(screen_analyzer, ret.contours)
        /\ BandInhabited

\* the threads that are executing _continuous_update_loop
LoopThreads == {w \in Workers : is_alive(w)}

\* C28: whatever start_continuous_updates and stop_continuous_updates calls
\* were made, and whether or not a join of stop timed out on a worker in a
\* long recompute, at most one thread is executing _continuous_update_loop.
C28_AtMostOneLoopThread == Cardinality(LoopThreads) <= 1

\* cleanup() of coordinate_manager.py has ended
CleanedUp == impl = "coordinate_manager" /\ ret.op = "cleanup"

\* C29: cleanup() of coordinate_manager.py completes without raising in
\* every state of the manager; after it the continuous updates are stopped
\* (continuous_update false, the stop event set) and, if eye tracking was
\* enabled, the tracker is stopped and its camera released.
C29_CleanupCompletes ==
    CleanedUp =>
        /\ ~ret.raised
        /\ ~continuous_update
        /\ continuous_update_stop_event
        /\ eye_tracking_enabled /\ eye_tracker # NoTracker =>
               ~tracker_pc.active /\ tracker.webcam = "none"

\* the tracking worker is running its loop with _tracking_active set
Publishing == tracker_pc.active /\ ~TrackingOver

\* C30: whenever no toggle is in progress, eye_tracking_enabled implies
\* that eye_tracker is not None, is calibrated and has a tracking worker
\* publishing gaze values, whatever the constructor arguments and the calls
\* of toggle_eye_tracking and load_calibration_and_track were.
C30_EnabledMeansTracking ==
    pc[0] = "idle" /\ eye_tracking_enabled =>
        /\ eye_tracker # NoTracker
        /\ tracker.is_calibrated
        /\ Publishing

====
